---------------------------- MODULE Spec2Model ----------------------------
(***************************************************************************)
(* Receipt text -> structured items -> carbon emissions.                   *)
(*                                                                         *)
(* Model of ocr-service/main.py (extract_receipt_info,                     *)
(* calculate_carbon_emissions, process_receipt) and of                     *)
(* ocr-service/text_parser.py (ReceiptTextParser).                         *)
(*                                                                         *)
(* Text is modelled as Python sees it: a line is a string, a regular       *)
(* expression is a sequence of quantified character classes matched by a   *)
(* backtracking matcher with Python's leftmost / greedy semantics.         *)
(*                                                                         *)
(* Numbers are fixed point:                                                *)
(*   prices            cents            (1.99  -> 199)                     *)
(*   quantities        thousandths      (1.0   -> 1000, 0.290 kg -> 290)   *)
(*   emission factors  tenths kg/kg     (0.7   -> 7)                       *)
(*   emissions         1e-4 kg CO2e     (50.0  -> 500000)                  *)
(*   confidences       1e-4             (0.9   -> 9000)                    *)
(***************************************************************************)
EXTENDS Integers, Sequences, FiniteSets, TLC

(***************************************************************************)
(* Characters and strings                                                  *)
(***************************************************************************)
Digit == {"0", "1", "2", "3", "4", "5", "6", "7", "8", "9"}
Upper == {"A", "B", "C", "D", "E", "F", "G", "H", "I", "J", "K", "L", "M",
          "N", "O", "P", "Q", "R", "S", "T", "U", "V", "W", "X", "Y", "Z"}
Lower == {"a", "b", "c", "d", "e", "f", "g", "h", "i", "j", "k", "l", "m",
          "n", "o", "p", "q", "r", "s", "t", "u", "v", "w", "x", "y", "z"}
Space == {" "}
Alpha == Upper \cup Lower
WordCh == Alpha \cup Digit \cup {"_"}
AnyCh == WordCh \cup Space \cup {"$", "@", "/", ".", "#", "&", "%", "-", ":", ","}
\* \s in a text of several lines
White == Space \cup {"\n"}

UpperStr == "ABCDEFGHIJKLMNOPQRSTUVWXYZ"
LowerStr == "abcdefghijklmnopqrstuvwxyz"
\* the characters in code-point order (str comparison, sorted())
OrderStr == " #$%&,-./0123456789:@ABCDEFGHIJKLMNOPQRSTUVWXYZ_abcdefghijklmnopqrstuvwxyz"

Ch(s, i) == SubSeq(s, i, i)

IndexIn(str, c) ==
  IF \E i \in 1..Len(str) : Ch(str, i) = c
  THEN CHOOSE i \in 1..Len(str) : Ch(str, i) = c
  ELSE 0

\* str.lower(), character by character (the string is halved so that a
\* long text is not a deep recursion)
RECURSIVE lower(_)
lower(s) ==
  IF s = "" THEN ""
  ELSE IF Len(s) = 1 THEN (IF s \in Upper THEN Ch(LowerStr, IndexIn(UpperStr, s)) ELSE s)
  ELSE lower(SubSeq(s, 1, Len(s) \div 2)) \o lower(SubSeq(s, Len(s) \div 2 + 1, Len(s)))

RECURSIVE upper(_)
upper(s) ==
  IF s = "" THEN ""
  ELSE IF Len(s) = 1 THEN (IF s \in Lower THEN Ch(UpperStr, IndexIn(LowerStr, s)) ELSE s)
  ELSE upper(SubSeq(s, 1, Len(s) \div 2)) \o upper(SubSeq(s, Len(s) \div 2 + 1, Len(s)))

\* `sub in s`
Contains(s, sub) ==
  \E i \in 1..(Len(s) - Len(sub) + 1) : SubSeq(s, i, i + Len(sub) - 1) = sub

\* str.find: first index (1-based) of sub in s, 0 when absent
Find(s, sub) ==
  IF Contains(s, sub)
  THEN CHOOSE i \in 1..(Len(s) - Len(sub) + 1) :
         /\ SubSeq(s, i, i + Len(sub) - 1) = sub
         /\ \A j \in 1..(i - 1) : SubSeq(s, j, j + Len(sub) - 1) # sub
  ELSE 0

\* str.rfind: last index (1-based) of sub in s, 0 when absent
RFind(s, sub) ==
  IF Contains(s, sub)
  THEN CHOOSE i \in 1..(Len(s) - Len(sub) + 1) :
         /\ SubSeq(s, i, i + Len(sub) - 1) = sub
         /\ \A j \in (i + 1)..(Len(s) - Len(sub) + 1) : SubSeq(s, j, j + Len(sub) - 1) # sub
  ELSE 0

\* any(k in s for k in keywords)
ContainsAny(s, keywords) == \E k \in 1..Len(keywords) : Contains(s, keywords[k])

RECURSIVE lstrip(_)
lstrip(s) == IF s # "" /\ Ch(s, 1) \in Space THEN lstrip(SubSeq(s, 2, Len(s))) ELSE s

RECURSIVE rstrip(_)
rstrip(s) == IF s # "" /\ Ch(s, Len(s)) \in Space THEN rstrip(SubSeq(s, 1, Len(s) - 1)) ELSE s

strip(s) == lstrip(rstrip(s))

\* str.split(): the whitespace-separated tokens of s
RECURSIVE split(_)
split(s) ==
  LET t == lstrip(s)
  IN IF t = "" THEN <<>>
     ELSE LET n == IF \E i \in 1..Len(t) : Ch(t, i) \in Space
                   THEN (CHOOSE i \in 1..Len(t) :
                           /\ Ch(t, i) \in Space
                           /\ \A j \in 1..(i - 1) : Ch(t, j) \notin Space) - 1
                   ELSE Len(t)
          IN <<SubSeq(t, 1, n)>> \o split(SubSeq(t, n + 1, Len(t)))

\* ' '.join(tokens)
RECURSIVE join(_)
join(toks) ==
  IF toks = <<>> THEN ""
  ELSE IF Len(toks) = 1 THEN toks[1]
  ELSE toks[1] \o " " \o join(Tail(toks))

isalpha(s) == s # "" /\ \A i \in 1..Len(s) : Ch(s, i) \in Alpha
isdigit(s) == s # "" /\ \A i \in 1..Len(s) : Ch(s, i) \in Digit

(***************************************************************************)
(* Regular expressions (module re): a pattern is a sequence of atoms, each *)
(* a character class with a repetition range; Inf stands for "no upper     *)
(* limit".  MatchAt is a backtracking matcher: a greedy atom tries the     *)
(* longest repetition first, a lazy one the shortest.                      *)
(***************************************************************************)
Inf == 999

One(cls) == [cls |-> cls, lo |-> 1, hi |-> 1, lazy |-> FALSE]
Opt(cls) == [cls |-> cls, lo |-> 0, hi |-> 1, lazy |-> FALSE]
Star(cls) == [cls |-> cls, lo |-> 0, hi |-> Inf, lazy |-> FALSE]
Plus(cls) == [cls |-> cls, lo |-> 1, hi |-> Inf, lazy |-> FALSE]
Rep(cls, lo, hi) == [cls |-> cls, lo |-> lo, hi |-> hi, lazy |-> FALSE]
LazyStar(cls) == [cls |-> cls, lo |-> 0, hi |-> Inf, lazy |-> TRUE]

\* a literal word, one atom per character
Lit(w) == [j \in 1..Len(w) |-> One({Ch(w, j)})]

\* atoms: the sequence of atoms; bol / eol: anchored with ^ / $
Re(atoms, bol, eol) == [atoms |-> atoms, bol |-> bol, eol |-> eol]

\* the number of consecutive characters of s from position i that lie in cls,
\* at most hi
RECURSIVE RunLen(_, _, _, _)
RunLen(cls, s, i, hi) ==
  IF hi = 0 \/ i > Len(s) \/ Ch(s, i) \notin cls THEN 0
  ELSE 1 + RunLen(cls, s, i + 1, hi - 1)

\* MatchAt(re, k, s, i): match atoms k.. of re against s from position i.
\* The result is <<>> when there is no match, else the boundaries
\* <<start of atom k, start of atom k+1, ..., end of match>>.
RECURSIVE MatchAt(_, _, _, _)
RECURSIVE TryCount(_, _, _, _, _, _)
TryCount(re, k, s, i, n, last) ==
  LET lazy == re.atoms[k].lazy
      Rest(r) == IF r # <<>> THEN <<i>> \o r
                 ELSE IF n = last THEN <<>>
                 ELSE TryCount(re, k, s, i, IF lazy THEN n + 1 ELSE n - 1, last)
  IN Rest(MatchAt(re, k + 1, s, i + n))

MatchAt(re, k, s, i) ==
  IF k > Len(re.atoms)
  THEN IF re.eol /\ i # Len(s) + 1 THEN <<>> ELSE <<i>>
  ELSE LET a == re.atoms[k]
           Counts(run) == IF run < a.lo THEN <<>>
                          ELSE IF a.lazy THEN TryCount(re, k, s, i, a.lo, run)
                          ELSE TryCount(re, k, s, i, run, a.lo)
       IN Counts(RunLen(a.cls, s, i, a.hi))

\* re.search from position `from`: the boundaries of the leftmost match, or <<>>
SearchFrom(re, s, from) ==
  LET Leftmost(starts) ==
        IF starts = {} THEN <<>>
        ELSE MatchAt(re, 1, s, CHOOSE k \in starts : \A j \in starts : k <= j)
  IN Leftmost({k \in from..(IF re.bol THEN from ELSE Len(s) + 1) :
                 k <= Len(s) + 1 /\ MatchAt(re, 1, s, k) # <<>>})

\* re.search(pattern, s)
Search(re, s) == SearchFrom(re, s, 1)
\* re.search(pattern, s) is not None ; re.match adds the ^ anchor in the pattern
Matches(re, s) == Search(re, s) # <<>>

\* the text of the group spanning atoms a..b of a match m
Group(s, m, a, b) == SubSeq(s, m[a], m[b + 1] - 1)
MatchStart(m) == m[1]
MatchEnd(m) == m[Len(m)]

\* re.findall for a pattern whose single group is the whole pattern:
\* the non-overlapping matches, left to right
RECURSIVE FindAllFrom(_, _, _)
FindAllFrom(re, s, from) ==
  LET Found(m) ==
        IF m = <<>> THEN <<>>
        ELSE <<SubSeq(s, MatchStart(m), MatchEnd(m) - 1)>>
             \o FindAllFrom(re, s, IF MatchEnd(m) = MatchStart(m) THEN MatchEnd(m) + 1
                                   ELSE MatchEnd(m))
  IN Found(SearchFrom(re, s, from))

FindAll(re, s) == FindAllFrom(re, s, 1)

\* re.sub(pattern, repl, s) for a pattern that matches no empty string
RECURSIVE Sub(_, _, _)
Sub(re, repl, s) ==
  LET Replaced(m) == IF m = <<>> THEN s
                     ELSE SubSeq(s, 1, MatchStart(m) - 1) \o repl
                          \o Sub(re, repl, SubSeq(s, MatchEnd(m), Len(s)))
  IN Replaced(Search(re, s))

(***************************************************************************)
(* Numbers                                                                 *)
(***************************************************************************)
DigitVal(c) == IndexIn("0123456789", c) - 1

RECURSIVE IntOf(_)
IntOf(s) == IF s = "" THEN 0 ELSE IntOf(SubSeq(s, 1, Len(s) - 1)) * 10 + DigitVal(Ch(s, Len(s)))

Pow10(d) == IF d = 0 THEN 1 ELSE IF d = 1 THEN 10 ELSE IF d = 2 THEN 100 ELSE 1000

\* float(s) for s of the shape \d+\.?\d*, as a fixed-point number with d
\* decimals (further decimals are cut)
ParseFixed(s, d) ==
  LET Value(ip, fd) == IntOf(ip) * Pow10(d) + IntOf(fd) * Pow10(d - Len(fd))
      Cut(fp) == IF Len(fp) >= d THEN SubSeq(fp, 1, d) ELSE fp
      At(dot) == IF dot = 0 THEN Value(s, "")
                 ELSE Value(SubSeq(s, 1, dot - 1), Cut(SubSeq(s, dot + 1, Len(s))))
  IN At(Find(s, "."))

(***************************************************************************)
(* Python values that may be None or of the wrong type: a number read from *)
(* JSON is a float, null / a missing key is None, anything else is kept as *)
(* a non-numeric value.                                                    *)
(***************************************************************************)
None == [t |-> "none", v |-> 0]
Num(n) == [t |-> "num", v |-> n]
\* a value of another type is [t |-> "str", v |-> 0]
\* a value that is a str
Str(s) == [t |-> "text", v |-> s]

\* safe_float: None for None and for whatever float() rejects
safe_float(val) == IF val.t = "num" THEN val ELSE None

\* safe_str (lines 594-598): "" for None and for whatever is falsy, else
\* str(val); the calls modelled pass a str or None
safe_str(val) == IF val.t = "text" THEN val.v ELSE ""

(***************************************************************************)
(* main.py: the food dictionary and fuzzy matching (rapidfuzz)             *)
(***************************************************************************)
\* The rows of food_dictionary.csv as csv.DictReader yields them; the
\* emission factor is already given in tenths of kg CO2e per kg.
food_dictionary_csv ==
  << [name |-> "banana", canonical |-> "banana", category |-> "fruits", emissions_kg_per_kg |-> 6],
     [name |-> "beef", canonical |-> "beef", category |-> "meat", emissions_kg_per_kg |-> 600],
     [name |-> "lamb", canonical |-> "lamb", category |-> "meat", emissions_kg_per_kg |-> 240] >>

\* the module-level dictionary of main.py (lines 88-96), filled at startup
VARIABLES
  FOOD_DICTIONARY,    \* the rows
  FOOD_NAME_SET       \* the lower-cased names

\* a <= b for strings (Python's str comparison), character by code point
RECURSIVE StrLeq(_, _)
StrLeq(a, b) ==
  IF a = "" THEN TRUE
  ELSE IF b = "" THEN FALSE
  ELSE IF Ch(a, 1) = Ch(b, 1) THEN StrLeq(SubSeq(a, 2, Len(a)), SubSeq(b, 2, Len(b)))
  ELSE IndexIn(OrderStr, Ch(a, 1)) < IndexIn(OrderStr, Ch(b, 1))

\* sorted(tokens)
RECURSIVE InsertSorted(_, _)
InsertSorted(t, sorted) ==
  IF sorted = <<>> THEN <<t>>
  ELSE IF StrLeq(t, sorted[1]) THEN <<t>> \o sorted
  ELSE <<sorted[1]>> \o InsertSorted(t, Tail(sorted))

RECURSIVE SortTokens(_)
SortTokens(toks) ==
  IF toks = <<>> THEN <<>> ELSE InsertSorted(toks[1], SortTokens(Tail(toks)))

\* one row of the longest-common-subsequence table: prev is the row of the
\* previous character of a, acc the part of this row already computed
RECURSIVE LcsRow(_, _, _, _)
LcsRow(c, b, prev, acc) ==
  LET j == Len(acc)
  IN IF j > Len(b) THEN acc
     ELSE LET v == IF c = Ch(b, j) THEN prev[j] + 1
                   ELSE IF prev[j + 1] >= acc[j] THEN prev[j + 1] ELSE acc[j]
          IN LcsRow(c, b, prev, Append(acc, v))

RECURSIVE LcsRows(_, _, _, _)
LcsRows(a, b, i, prev) ==
  \* Len(prev) comes first so that a row is computed before the next is begun
  IF Len(prev) = Len(b) + 1 /\ i > Len(a) THEN prev[Len(b) + 1]
  ELSE LcsRows(a, b, i + 1, LcsRow(Ch(a, i), b, prev, <<0>>))

\* the length of the longest common subsequence of a and b
Lcs(a, b) == LcsRows(a, b, 1, [j \in 1..(Len(b) + 1) |-> 0])

\* rapidfuzz fuzz.ratio: the normalized Indel similarity, 0..100, here in
\* hundredths of a percent (0..10000)
ratio(a, b) ==
  IF Len(a) + Len(b) = 0 THEN 10000
  ELSE (20000 * Lcs(a, b)) \div (Len(a) + Len(b))

\* rapidfuzz fuzz.token_sort_ratio
token_sort_ratio(a, b) == ratio(join(SortTokens(split(a))), join(SortTokens(split(b))))

\* rapidfuzz utils.default_process: lower-case, non-alphanumerics to spaces, strip
RECURSIVE NonAlnumToSpace(_)
NonAlnumToSpace(s) ==
  IF s = "" THEN ""
  ELSE (IF Ch(s, 1) \in Alpha \cup Digit THEN Ch(s, 1) ELSE " ")
       \o NonAlnumToSpace(SubSeq(s, 2, Len(s)))

default_process(s) == strip(NonAlnumToSpace(lower(s)))

\* process.extractOne(name, choices, scorer=fuzz.token_sort_ratio): the index
\* and score of the best choice, the earliest among equal scores.  proc tells
\* whether the installed rapidfuzz preprocesses query and choices
\* (default_process was the default processor before rapidfuzz 3).
extractOne(name, proc) ==
  LET Score(k) ==
        IF proc
        THEN token_sort_ratio(default_process(name), default_process(FOOD_DICTIONARY[k].name))
        ELSE token_sort_ratio(name, FOOD_DICTIONARY[k].name)
      Best(scores) ==
        LET idx == CHOOSE k \in 1..Len(FOOD_DICTIONARY) :
                     /\ \A j \in 1..Len(FOOD_DICTIONARY) : scores[j] <= scores[k]
                     /\ \A j \in 1..(k - 1) : scores[j] < scores[k]
        IN [idx |-> idx, score |-> scores[idx]]
  IN Best([k \in 1..Len(FOOD_DICTIONARY) |-> Score(k)])

\* the similarity floor of fuzzy_match_food, threshold=80
FUZZY_THRESHOLD == 8000

\* fuzzy_match_food returning the score as rapidfuzz gives it, 0..100
fuzzy_match_food_percent(name, proc) ==
  LET Accept(best) == IF best.score >= FUZZY_THRESHOLD
                      THEN [row |-> best.idx, confidence |-> best.score * 100]
                      ELSE [row |-> 0, confidence |-> 0]
  IN Accept(extractOne(name, proc))

\* fuzzy_match_food: (row, score / 100.0), or (None, 0.0) below the threshold;
\* row 0 stands for None
fuzzy_match_food(name, proc) ==
  LET Accept(best) == IF best.score >= FUZZY_THRESHOLD
                      THEN [row |-> best.idx, confidence |-> best.score]
                      ELSE [row |-> 0, confidence |-> 0]
  IN Accept(extractOne(name, proc))

(***************************************************************************)
(* main.py extract_receipt_info: merchant, date and total (lines 286-343)  *)
(***************************************************************************)
merchant_keywords ==
  <<"walmart", "target", "kroger", "safeway", "costco", "whole foods", "trader joe",
    "aldi", "shoprite", "stop & shop">>

\* ^\d+\.?\d*$
BARE_NUMBER == Re(<<Plus(Digit), Opt({"."}), Star(Digit)>>, TRUE, TRUE)

\* the least index of a non-empty set of indices
First(hits) == CHOOSE k \in hits : \A j \in hits : k <= j

\* lines 301-319: the first line naming a known store, else the first
\* substantial line that is no bare number, else None
main_merchant(lines) ==
  LET Substantial(hits) ==
        IF hits = {} THEN None ELSE Str(strip(lines[First(hits)]))
      Known(hits) ==
        IF hits # {} THEN Str(strip(lines[First(hits)]))
        ELSE Substantial({k \in 1..Len(lines) :
                            /\ Len(strip(lines[k])) > 3
                            /\ ~Matches(BARE_NUMBER, strip(lines[k]))})
  IN Known({k \in 1..Len(lines) : ContainsAny(lower(lines[k]), merchant_keywords)})

\* date_patterns (lines 295-299); the third, with its alternation of month
\* names, is one pattern for each name
date_patterns ==
  LET month_names ==
        <<"jan", "feb", "mar", "apr", "may", "jun", "jul", "aug", "sep", "oct", "nov", "dec">>
  IN
  << <<Re(<<Rep(Digit, 1, 2), One({"/", "-"}), Rep(Digit, 1, 2), One({"/", "-"}),
            Rep(Digit, 2, 4)>>, FALSE, FALSE)>>,
     <<Re(<<Rep(Digit, 4, 4), One({"-"}), Rep(Digit, 2, 2), One({"-"}),
            Rep(Digit, 2, 2)>>, FALSE, FALSE)>>,
     [n \in 1..12 |->
        Re(<<Rep(Digit, 1, 2), Plus(Space)>> \o Lit(month_names[n])
           \o <<Plus(Space), Rep(Digit, 2, 4)>>, FALSE, FALSE)] >>

\* re.search for an alternation: the leftmost match of any alternative (two
\* month names never match at one position)
RECURSIVE SearchAlt(_, _, _)
SearchAlt(alts, k, s) ==
  IF k > Len(alts) THEN <<>>
  ELSE LET Better(m, rest) ==
             IF m = <<>> THEN rest
             ELSE IF rest = <<>> THEN m
             ELSE IF MatchStart(rest) < MatchStart(m) THEN rest ELSE m
       IN Better(Search(alts[k], s), SearchAlt(alts, k + 1, s))

\* the date of one line: group 1 of the first pattern that matches, under
\* re.IGNORECASE; <<>> when none matches
RECURSIVE LineDate(_, _)
LineDate(line, p) ==
  IF p > Len(date_patterns) THEN <<>>
  ELSE LET Found(m) == IF m # <<>> THEN <<SubSeq(line, MatchStart(m), MatchEnd(m) - 1)>>
                       ELSE LineDate(line, p + 1)
       IN Found(SearchAlt(date_patterns[p], 1, lower(line)))

\* lines 321-329: the date of the first line that has one, else None
RECURSIVE main_date(_)
main_date(lines) ==
  IF lines = <<>> THEN None
  ELSE LET Found(d) == IF d # <<>> THEN Str(d[1]) ELSE main_date(Tail(lines))
       IN Found(LineDate(lines[1], 1))

\* total_patterns (lines 288-293), with the first atom of the group
total_patterns ==
  << [re |-> Re(Lit("total") \o <<LazyStar(AnyCh), Plus(Digit), Opt({"."}), Star(Digit)>>,
                FALSE, FALSE), group |-> 7],
     [re |-> Re(Lit("amount") \o <<LazyStar(AnyCh), Plus(Digit), Opt({"."}), Star(Digit)>>,
                FALSE, FALSE), group |-> 8],
     [re |-> Re(Lit("balance") \o <<LazyStar(AnyCh), Plus(Digit), Opt({"."}), Star(Digit)>>,
                FALSE, FALSE), group |-> 9],
     [re |-> Re(<<Plus(Digit), Opt({"."}), Star(Digit), Star(Space)>>, FALSE, TRUE),
      group |-> 1] >>

\* group 1 of the first total pattern that matches the line; <<>> when none
RECURSIVE LineTotal(_, _)
LineTotal(line_lower, p) ==
  IF p > Len(total_patterns) THEN <<>>
  ELSE LET Found(m) ==
             IF m # <<>>
             THEN <<Group(line_lower, m, total_patterns[p].group, total_patterns[p].group + 2)>>
             ELSE LineTotal(line_lower, p + 1)
       IN Found(Search(total_patterns[p].re, line_lower))

\* lines 331-343: from the bottom line up, the number of the first line
\* whose number is not zero; a zero found on the way stays when no line has
\* another; in cents
RECURSIVE main_total(_, _)
main_total(lines, sofar) ==
  IF lines = <<>> THEN sofar
  ELSE LET Found(g) ==
             IF g = <<>> THEN main_total(SubSeq(lines, 1, Len(lines) - 1), sofar)
             ELSE IF ParseFixed(g[1], 2) # 0 THEN Num(ParseFixed(g[1], 2))
             ELSE main_total(SubSeq(lines, 1, Len(lines) - 1), Num(0))
       IN Found(LineTotal(lower(lines[Len(lines)]), 1))

(***************************************************************************)
(* main.py extract_receipt_info: candidate lines                           *)
(***************************************************************************)
skip_keywords ==
  << "total", "tax", "subtotal", "change", "balance", "visa", "debit", "tend", "cash",
     "hst", "gst", "receipt", "thank", "store", "address", "phone", "account", "ref",
     "terminal", "network", "appr", "code", "teacher", "appreciation", "walmart.com",
     "eftdebit", "payfrom", "primary", "purchase", "networkid", "terminal" >>

\* (\d+\.?\d*)
NUMBER == <<Plus(Digit), Opt({"."}), Star(Digit)>>

\* product_patterns, each with the atoms its groups span
product_patterns ==
  << \* (\d+)\s+([A-Z0-9]{8,})\s+(\d+\.?\d*)
     [re |-> Re(<<Plus(Digit), Plus(Space), Rep(Upper \cup Digit, 8, Inf), Plus(Space)>> \o NUMBER,
                FALSE, FALSE),
      groups |-> << <<1, 1>>, <<3, 3>>, <<5, 7>> >>],
     \* ([A-Z0-9]{8,})\s+(\d+\.?\d*)
     [re |-> Re(<<Rep(Upper \cup Digit, 8, Inf), Plus(Space)>> \o NUMBER, FALSE, FALSE),
      groups |-> << <<1, 1>>, <<3, 5>> >>],
     \* ([A-Za-z\s]{3,})\s+(\d+\.?\d*)
     [re |-> Re(<<Rep(Alpha \cup Space, 3, Inf), Plus(Space)>> \o NUMBER, FALSE, FALSE),
      groups |-> << <<1, 1>>, <<3, 5>> >>],
     \* ([A-Z0-9]{6,})\s+(\d+)\s+(\d+\.?\d*)
     [re |-> Re(<<Rep(Upper \cup Digit, 6, Inf), Plus(Space), Plus(Digit), Plus(Space)>> \o NUMBER,
                FALSE, FALSE),
      groups |-> << <<1, 1>>, <<3, 3>>, <<5, 7>> >>] >>

\* ^[\d\s\.]+$
PURE_NUMBERS == Re(<<Plus(Digit \cup Space \cup {"."})>>, TRUE, TRUE)
\* [^\w\s]
NON_WORD == Re(<<One(AnyCh \ (WordCh \cup Space))>>, FALSE, FALSE)

\* the price ceiling of a single item, in cents (price > 100 is discarded)
MAX_ITEM_PRICE == 10000

\* re.sub(r'[^\w\s]', ' ', part) ; ' '.join(part.split())
CleanPart(part) == join(split(Sub(NON_WORD, " ", part)))

\* float(price_matches[-1]) in cents; the line holds at least one number
LastOf(price_matches) == price_matches[Len(price_matches)]
LastPrice(line) == ParseFixed(LastOf(FindAll(Re(NUMBER, FALSE, FALSE), line)), 2)

\* the loop over product_patterns for one line (lines 380-416): the candidates
\* the line adds, <<>> or one.  A price above the ceiling moves on to the next
\* pattern; any other match ends the loop.
RECURSIVE TryPatterns(_, _)
TryPatterns(line, k) ==
  IF k > Len(product_patterns) THEN <<>>
  ELSE LET p == product_patterns[k]
           Quantity(g1) == IF Len(p.groups) >= 3 /\ isdigit(g1)
                           THEN ParseFixed(g1, 3) ELSE 1000
           Priced(price, product_part, quantity) ==
             IF price > MAX_ITEM_PRICE THEN TryPatterns(line, k + 1)
             ELSE IF product_part # "" /\ Len(product_part) > 2
             THEN << [name |-> product_part, price |-> price,
                      quantity |-> quantity, original_line |-> line] >>
             ELSE <<>>
           Matched(m) ==
             IF m = <<>> THEN TryPatterns(line, k + 1)
             ELSE Priced(LastPrice(line),
                         CleanPart(Group(line, m, p.groups[2][1], p.groups[2][2])),
                         Quantity(Group(line, m, p.groups[1][1], p.groups[1][2])))
       IN Matched(Search(p.re, line))

\* the first loop over the lines (lines 366-416)
RECURSIVE FirstPass(_)
FirstPass(lines) ==
  IF lines = <<>> THEN <<>>
  ELSE LET line == strip(lines[1])
           here == IF line = "" THEN <<>>
                   ELSE IF ContainsAny(lower(line), skip_keywords) THEN <<>>
                   ELSE IF Len(line) < 3 \/ Matches(PURE_NUMBERS, line) THEN <<>>
                   ELSE TryPatterns(line, 1)
       IN here \o FirstPass(Tail(lines))

product_indicators ==
  << "COM", "PK", "BDS", "HAIR", "WIPES", "SOCK", "POP", "RS", "BRN", "PATROL",
     "BABY", "DR", "SMITH", "MSANML", "PCSET", "PKBDS", "PKHAIR", "PKSOCK" >>

\* the second loop over the lines (lines 424-456), continuing candidate_lines
RECURSIVE SecondPass(_, _)
SecondPass(lines, candidate_lines) ==
  IF lines = <<>> THEN candidate_lines
  ELSE LET line == strip(lines[1])
           Named(price, name_part) ==
             IF price > MAX_ITEM_PRICE THEN <<>>
             ELSE IF ~(name_part # "" /\ Len(name_part) > 2) THEN <<>>
             ELSE IF \E c \in 1..Len(candidate_lines) : candidate_lines[c].original_line = line
             THEN <<>>
             ELSE << [name |-> name_part, price |-> price,
                      quantity |-> 1000, original_line |-> line] >>
           Priced(price_matches) ==
             IF price_matches = <<>> THEN <<>>
             ELSE Named(ParseFixed(LastOf(price_matches), 2),
                        CleanPart(strip(SubSeq(line, 1, RFind(line, LastOf(price_matches)) - 1))))
           added ==
             IF line = "" \/ Len(line) < 5 THEN <<>>
             ELSE IF ContainsAny(lower(line), skip_keywords) THEN <<>>
             ELSE IF ~ContainsAny(upper(line), product_indicators) THEN <<>>
             ELSE Priced(FindAll(Re(NUMBER, FALSE, FALSE), line))
       IN SecondPass(Tail(lines), candidate_lines \o added)

\* ^[0-9]{6,}$ , ^[A-Z0-9]{6,}$ , ^\$?\d+\.\d{2}$
LONG_NUMBER == Re(<<Rep(Digit, 6, Inf)>>, TRUE, TRUE)
LONG_CODE == Re(<<Rep(Upper \cup Digit, 6, Inf)>>, TRUE, TRUE)
PRICE_TOKEN == Re(<<Opt({"$"}), Plus(Digit), One({"."}), Rep(Digit, 2, 2)>>, TRUE, TRUE)

\* extract_product_name without its fallback: no alphabetic token, no name
RECURSIVE FirstAlphaOrEmpty(_, _)
FirstAlphaOrEmpty(tokens, line) ==
  IF tokens = <<>> THEN ""
  ELSE IF /\ ~Matches(LONG_NUMBER, tokens[1])
          /\ ~Matches(LONG_CODE, tokens[1])
          /\ ~Matches(PRICE_TOKEN, tokens[1])
          /\ Len(tokens[1]) > 2
          /\ isalpha(tokens[1])
       THEN tokens[1]
       ELSE FirstAlphaOrEmpty(Tail(tokens), line)

\* extract_product_name (lines 462-475): the first alphabetic token that is
\* no long number, long code or price and is longer than 2, else the line
RECURSIVE FirstAlpha(_, _)
FirstAlpha(tokens, line) ==
  IF tokens = <<>> THEN line
  ELSE LET t == tokens[1]
           kept == /\ ~Matches(LONG_NUMBER, t)
                   /\ ~Matches(LONG_CODE, t)
                   /\ ~Matches(PRICE_TOKEN, t)
                   /\ Len(t) > 2
       IN IF kept /\ isalpha(t) THEN t ELSE FirstAlpha(Tail(tokens), line)

extract_product_name(line) == FirstAlpha(split(line), line)

\* lines 366-477: both passes, then every candidate renamed by
\* extract_product_name
Candidates(lines) ==
  LET Renamed(c) ==
        [k \in 1..Len(c) |-> [c[k] EXCEPT !.name = extract_product_name(c[k].original_line)]]
  IN Renamed(SecondPass(lines, FirstPass(lines)))

(***************************************************************************)
(* main.py is_likely_food_item                                             *)
(***************************************************************************)
\* non_food_patterns, searched in the lower-cased name
non_food_patterns ==
  << Re(<<Rep(Upper \cup Digit, 8, Inf)>>, TRUE, FALSE),          \* ^[A-Z0-9]{8,}
     Re(<<Rep(Digit, 8, Inf)>>, TRUE, FALSE),                      \* ^\d{8,}
     Re(<<Rep(Upper, 2, Inf), Plus(Digit)>>, TRUE, FALSE),         \* ^[A-Z]{2,}\d+
     Re(Lit("walmart"), FALSE, FALSE),
     Re(Lit("store"), FALSE, FALSE),
     Re(Lit("address"), FALSE, FALSE),
     Re(Lit("phone"), FALSE, FALSE),
     Re(Lit("account"), FALSE, FALSE),
     Re(Lit("ref"), FALSE, FALSE),
     Re(Lit("terminal"), FALSE, FALSE),
     Re(Lit("network"), FALSE, FALSE),
     Re(Lit("appr"), FALSE, FALSE),
     Re(Lit("code"), FALSE, FALSE),
     Re(Lit("teacher"), FALSE, FALSE),
     Re(Lit("appreciation"), FALSE, FALSE),
     Re(Lit("art"), FALSE, FALSE),
     Re(Lit("st") \o <<Plus(Digit)>>, FALSE, FALSE),               \* st\d+
     Re(Lit("com") \o <<Plus(Digit)>>, FALSE, FALSE),              \* com\d+
     Re(Lit("drsmith"), FALSE, FALSE),
     Re(Lit("patrol"), FALSE, FALSE),
     Re(Lit("brnmsanml"), FALSE, FALSE),
     Re(Lit("debit"), FALSE, FALSE),
     Re(Lit("change"), FALSE, FALSE),
     Re(Lit("balance"), FALSE, FALSE),
     Re(Lit("total"), FALSE, FALSE),
     Re(Lit("tax"), FALSE, FALSE),
     Re(Lit("subtotal"), FALSE, FALSE) >>

food_keywords ==
  << "apple", "banana", "orange", "tomato", "potato", "carrot", "lettuce", "onion",
     "chicken", "beef", "pork", "fish", "salmon", "tuna", "milk", "cheese", "yogurt",
     "bread", "rice", "pasta", "cereal", "coffee", "tea", "juice", "soda", "beer",
     "wine", "chocolate", "candy", "chips", "cookies", "butter", "eggs", "cream",
     "almond", "peanut", "walnut", "olive", "oil", "ketchup", "mayo", "mustard",
     "soy", "sauce", "hot", "baby", "diaper", "wipe", "dog", "cat", "detergent",
     "paper", "towel", "frozen", "canned", "organic", "fresh", "food", "snack",
     "drink", "beverage", "meat", "dairy", "fruit", "vegetable", "grain", "nut",
     "seed", "spice", "herb", "condiment", "sauce", "dressing", "spread" >>

is_likely_food_item(item_name) ==
  IF item_name = "" \/ Len(item_name) < 2 THEN FALSE
  ELSE LET name_lower == lower(item_name)
       IN IF \E k \in 1..Len(non_food_patterns) : Matches(non_food_patterns[k], name_lower)
          THEN FALSE
          ELSE ContainsAny(name_lower, food_keywords)

(***************************************************************************)
(* text_parser.py ReceiptTextParser                                        *)
(***************************************************************************)
\* category_keywords, in the dict's insertion order
category_keywords ==
  << [category |-> "vegetables", keywords |-> <<"carrot", "lettuce", "tomato", "onion", "potato", "broccoli", "spinach", "cucumber", "squash", "zucc", "scal">>],
     [category |-> "fruits", keywords |-> <<"apple", "banana", "orange", "grape", "strawberry", "blueberry", "mango", "pineapple">>],
     [category |-> "meat", keywords |-> <<"chicken", "beef", "pork", "turkey", "lamb", "drumstick", "steak", "bacon">>],
     [category |-> "dairy", keywords |-> <<"milk", "cheese", "yogurt", "cream", "butter", "margarine", "marge">>],
     [category |-> "grains", keywords |-> <<"bread", "pasta", "rice", "spaghetti", "spagehtti", "flour", "yeast">>],
     [category |-> "beverages", keywords |-> <<"soda", "juice", "water", "coffee", "tea", "beer", "wine">>],
     [category |-> "sweets", keywords |-> <<"chocolate", "candy", "cookie", "cake", "ice cream", "sugar", "smiles">>],
     [category |-> "processed", keywords |-> <<"chip", "snack", "cereal", "sauce", "soup", "can", "jar", "bd", "chipits">>] >>

\* category_emissions, in tenths of kg CO2e per kg
category_emissions ==
  [c \in {"vegetables", "fruits", "meat", "dairy", "grains", "beverages", "sweets", "processed"} |->
     CASE c = "vegetables" -> 4
       [] c = "fruits" -> 5
       [] c = "meat" -> 150
       [] c = "dairy" -> 30
       [] c = "grains" -> 10
       [] c = "beverages" -> 5
       [] c = "sweets" -> 20
       [] c = "processed" -> 20]

parser_skip_words ==
  << "total", "subtotal", "tax", "hst", "gst", "pst", "change", "cash", "card",
     "payment", "receipt", "survey", "win", "rules", "store", "st#", "op#", "te#",
     "tr#", "visa", "mastercard", "debit", "credit", "charge", "pot wht", "complete",
     "gift", "contest", "regulations", "details", "road", "unit", "phone", "address" >>

_should_skip_line(line) == ContainsAny(lower(line), parser_skip_words)

\* _categorize_item: the first category, in order, one of whose keywords
\* occurs in the lower-cased name; "processed" by default
_categorize_item(item_name) ==
  LET item_lower == lower(item_name)
      hits == {k \in 1..Len(category_keywords) :
                 ContainsAny(item_lower, category_keywords[k].keywords)}
  IN IF hits = {} THEN "processed"
     ELSE category_keywords[CHOOSE k \in hits : \A j \in hits : k <= j].category

\* re.sub(pattern, '', s) for the patterns of _clean_item_name
\* \d{12} ; \d{6,} ; [A-Z]{1,3}\s*\d+ ; \d{1,3}G ; \s+ ; \s+[A-Z]\s*$
SKU12 == Re(<<Rep(Digit, 12, 12)>>, FALSE, FALSE)
LONG_DIGITS == Re(<<Rep(Digit, 6, Inf)>>, FALSE, FALSE)
SHORT_CODE == Re(<<Rep(Upper, 1, 3), Star(Space), Plus(Digit)>>, FALSE, FALSE)
GRAMS == Re(<<Rep(Digit, 1, 3), One({"G"})>>, FALSE, FALSE)
SPACES == Re(<<Plus(Space)>>, FALSE, FALSE)
TRAILING_LETTER == Re(<<Plus(Space), One(Upper), Star(Space)>>, FALSE, TRUE)

_clean_item_name(item_name) ==
  LET c1 == Sub(SKU12, "", item_name)
      c2 == Sub(LONG_DIGITS, "", c1)
      c3 == Sub(SHORT_CODE, "", c2)
      c4 == Sub(GRAMS, "", c3)
      c5 == strip(Sub(SPACES, " ", c4))
  IN Sub(TRAILING_LETTER, "", c5)

\* (\d+\.\d{3})\s+kg\s+@\s+\$(\d+\.\d{2})/kg\s+\$(\d+\.\d{2})
weight_pattern ==
  Re(<<Plus(Digit), One({"."}), Rep(Digit, 3, 3), Plus(Space)>> \o Lit("kg")
     \o <<Plus(Space), One({"@"}), Plus(Space), One({"$"}),
          Plus(Digit), One({"."}), Rep(Digit, 2, 2)>> \o Lit("/kg")
     \o <<Plus(Space), One({"$"}), Plus(Digit), One({"."}), Rep(Digit, 2, 2)>>,
     FALSE, FALSE)

\* \$(\d+\.\d{2})\s*[A-Z]?\s*$
price_pattern ==
  Re(<<One({"$"}), Plus(Digit), One({"."}), Rep(Digit, 2, 2),
       Star(Space), Opt(Upper), Star(Space)>>, FALSE, TRUE)

\* _parse_weighted_item: <<>> for None, else <<item>>
_parse_weighted_item(line) ==
  LET Item(item_clean, category, weight, price_per_kg, total_price) ==
        IF item_clean # "" /\ Len(item_clean) > 2
        THEN << [name |-> item_clean, quantity |-> weight, unit_price |-> price_per_kg,
                 total_price |-> total_price,
                 carbon_emissions |-> category_emissions[category] * weight,
                 category |-> category, confidence |-> 10000] >>
        ELSE <<>>
      Cleaned(item_clean, m) ==
        Item(item_clean, _categorize_item(item_clean),
             ParseFixed(Group(line, m, 1, 3), 3),
             ParseFixed(Group(line, m, 11, 13), 2),
             ParseFixed(Group(line, m, 19, 21), 2))
      Named(item_part, m) ==
        IF item_part # "" THEN Cleaned(_clean_item_name(item_part), m) ELSE <<>>
      Matched(weight_match) ==
        IF weight_match = <<>> THEN <<>>
        ELSE Named(strip(SubSeq(line, 1, MatchStart(weight_match) - 1)), weight_match)
  IN Matched(Search(weight_pattern, line))

\* _parse_regular_item: <<>> for None, else <<item>>
_parse_regular_item(line) ==
  LET Item(item_clean, category, price) ==
        IF item_clean # "" /\ Len(item_clean) > 2
        THEN << [name |-> item_clean, quantity |-> 1000, unit_price |-> price,
                 total_price |-> price,
                 carbon_emissions |-> category_emissions[category] * 1000,
                 category |-> category, confidence |-> 10000] >>
        ELSE <<>>
      Cleaned(item_clean, m) ==
        Item(item_clean, _categorize_item(item_clean), ParseFixed(Group(line, m, 2, 4), 2))
      Named(item_part, m) ==
        IF item_part # "" THEN Cleaned(_clean_item_name(item_part), m) ELSE <<>>
      Matched(price_match) ==
        IF price_match = <<>> THEN <<>>
        ELSE Named(strip(SubSeq(line, 1, MatchStart(price_match) - 1)), price_match)
  IN Matched(Search(price_pattern, line))

\* _parse_line: weighted items first, then regular items
_parse_line(line) ==
  LET Weighted(weighted_item) ==
        IF weighted_item # <<>> THEN weighted_item ELSE _parse_regular_item(line)
  IN Weighted(_parse_weighted_item(line))

\* the loop of parse_receipt_text over the lines (lines 48-60)
RECURSIVE ParserItems(_)
ParserItems(lines) ==
  IF lines = <<>> THEN <<>>
  ELSE LET line == strip(lines[1])
           here == IF line = "" \/ Len(line) < 3 THEN <<>>
                   ELSE IF _should_skip_line(line) THEN <<>>
                   ELSE _parse_line(line)
       IN here \o ParserItems(Tail(lines))

\* a sum over the wrong key of the items
RECURSIVE SumTotalPrice(_)
SumTotalPrice(its) ==
  IF its = <<>> THEN 0 ELSE its[1].total_price + SumTotalPrice(Tail(its))

\* sum(item.get('carbon_emissions', 0) for item in items)
RECURSIVE SumEmissions(_)
SumEmissions(its) ==
  IF its = <<>> THEN 0 ELSE its[1].carbon_emissions + SumEmissions(Tail(its))

\* len(text.strip()) for the text whose lines are given
RECURSIVE TextLen(_)
TextLen(lines) ==
  IF lines = <<>> THEN 0
  ELSE IF Len(lines) = 1 THEN Len(lines[1])
  ELSE Len(lines[1]) + 1 + TextLen(Tail(lines))

\* the text whose lines are given
RECURSIVE Text(_)
Text(lines) ==
  IF lines = <<>> THEN ""
  ELSE IF Len(lines) = 1 THEN lines[1]
  ELSE lines[1] \o "\n" \o Text(Tail(lines))

\* _extract_merchant: the names looked for, in the order of the dict
merchants ==
  << [key |-> "walmart", name |-> "Walmart"],
     [key |-> "target", name |-> "Target"],
     [key |-> "kroger", name |-> "Kroger"],
     [key |-> "safeway", name |-> "Safeway"],
     [key |-> "costco", name |-> "Costco"],
     [key |-> "whole foods", name |-> "Whole Foods"],
     [key |-> "trader joe", name |-> "Trader Joe's"] >>

\* STORE\s+(\d+), searched under re.IGNORECASE
STORE_NUMBER == Re(Lit("store") \o <<Plus(White), Plus(Digit)>>, FALSE, FALSE)

\* _extract_merchant (lines 74-98): a known name, else "Store #n", else the
\* placeholder
_extract_merchant(lines) ==
  LET Numbered(text_lower, store_match) ==
        IF store_match # <<>> THEN "Store #" \o Group(text_lower, store_match, 7, 7)
        ELSE "Unknown Merchant"
      Known(text_lower, hits) ==
        IF hits # {} THEN merchants[First(hits)].name
        ELSE Numbered(text_lower, Search(STORE_NUMBER, text_lower))
      In(text_lower) ==
        Known(text_lower, {k \in 1..Len(merchants) : Contains(text_lower, merchants[k].key)})
  IN In(lower(Text(lines)))

\* _extract_total (lines 100-107), in cents; the pattern is
\* TOTAL\s+\$?(\d+\.\d{2}), searched under re.IGNORECASE
_extract_total(lines) ==
  LET TOTAL_AMOUNT ==
        Re(Lit("total") \o <<Plus(White), Opt({"$"}), Plus(Digit), One({"."}), Rep(Digit, 2, 2)>>,
           FALSE, FALSE)
      Found(text_lower, total_match) ==
        IF total_match # <<>> THEN Num(ParseFixed(Group(text_lower, total_match, 8, 10), 2))
        ELSE None
      In(text_lower) == Found(text_lower, Search(TOTAL_AMOUNT, text_lower))
  IN In(lower(Text(lines)))

\* _create_empty_response (lines 231-240)
_create_empty_response ==
  [items |-> <<>>, merchant |-> Str("Unknown Merchant"), total |-> None, date |-> None,
   total_carbon_emissions |-> 0]

\* parse_receipt_text (lines 31-72)
parse_receipt_text(lines) ==
  IF lines = <<>> \/ TextLen(lines) < 10
  THEN _create_empty_response
  ELSE LET Result(its) ==
             [items |-> its, merchant |-> Str(_extract_merchant(lines)),
              total |-> _extract_total(lines), date |-> None,
              total_carbon_emissions |-> SumEmissions(its)]
       IN Result(ParserItems(lines))

(***************************************************************************)
(* emissions_db.py: EmissionsDatabase.  co2_per_kg is in tenths of kg per   *)
(* kg, weights are in thousandths of kg, emissions in 1e-4 kg.             *)
(***************************************************************************)
VARIABLES
  food_items,         \* EmissionsDatabase.food_items
  category_mappings   \* EmissionsDatabase.category_mappings, in insertion order

\* _load_food_database (lines 24-135): four of its rows; milk and almond both
\* list the keyword "almond milk"
_load_food_database ==
  << [name |-> "beef", category |-> "meat", co2_per_kg |-> 133, typical_weight_kg |-> 250,
      keywords |-> <<"beef", "steak", "burger", "ground beef", "roast beef", "brisket",
                     "ribeye", "sirloin", "tenderloin">>,
      subcategory |-> "red_meat", source |-> "FAO"],
     [name |-> "milk", category |-> "dairy", co2_per_kg |-> 14, typical_weight_kg |-> 1000,
      keywords |-> <<"milk", "skim milk", "whole milk", "2% milk", "1% milk", "almond milk",
                     "soy milk">>,
      subcategory |-> "milk", source |-> "FAO"],
     [name |-> "eggs", category |-> "dairy", co2_per_kg |-> 48, typical_weight_kg |-> 60,
      keywords |-> <<"egg", "eggs", "egg white", "egg yolk", "dozen eggs">>,
      subcategory |-> "eggs", source |-> "FAO"],
     [name |-> "almond", category |-> "nuts", co2_per_kg |-> 23, typical_weight_kg |-> 100,
      keywords |-> <<"almond", "almonds", "almond milk">>,
      subcategory |-> "almonds", source |-> "FAO"] >>

\* mappings[key] = val on a dict kept in insertion order
Put(mappings, key, val) ==
  IF \E k \in 1..Len(mappings) : mappings[k].keyword = key
  THEN [k \in 1..Len(mappings) |->
          IF mappings[k].keyword = key THEN [keyword |-> key, mapping |-> val]
          ELSE mappings[k]]
  ELSE Append(mappings, [keyword |-> key, mapping |-> val])

\* _create_category_mappings (lines 137-152) over items k..; AddKeywords is
\* the inner loop over the keywords j.. of an item
RECURSIVE _create_category_mappings(_, _, _)
_create_category_mappings(mappings, items_, k) ==
  LET RECURSIVE AddKeywords(_, _, _)
      AddKeywords(sofar, item, j) ==
        IF j > Len(item.keywords) THEN sofar
        ELSE AddKeywords(Put(sofar, lower(item.keywords[j]),
                             [category |-> item.category, subcategory |-> item.subcategory,
                              co2_per_kg |-> item.co2_per_kg,
                              typical_weight_kg |-> item.typical_weight_kg,
                              source |-> item.source, confidence |-> 9000]),
                         item, j + 1)
  IN IF k > Len(items_) THEN mappings
     ELSE _create_category_mappings(AddKeywords(mappings, items_[k], 1), items_, k + 1)

\* find_food_item (lines 154-173): <<>> for None, else <<mapping>>
find_food_item(item_name) ==
  LET Keys(cond(_)) == {k \in 1..Len(category_mappings) : cond(category_mappings[k].keyword)}
      Hit(hits) == <<category_mappings[First(hits)].mapping>>
      Words(normalized_name, words) ==
        IF \E w \in 1..Len(words) :
             Len(words[w]) > 2 /\ \E k \in 1..Len(category_mappings) :
                                    category_mappings[k].keyword = words[w]
        THEN LET w == First({v \in 1..Len(words) :
                               Len(words[v]) > 2 /\ \E k \in 1..Len(category_mappings) :
                                 category_mappings[k].keyword = words[v]})
                 Same(keyword) == keyword = words[w]
             IN Hit(Keys(Same))
        ELSE <<>>
      Partial(normalized_name) ==
        LET Part(keyword) == Contains(normalized_name, keyword)
                             \/ Contains(keyword, normalized_name)
        IN IF Keys(Part) # {} THEN Hit(Keys(Part))
           ELSE Words(normalized_name, split(normalized_name))
      Exact(normalized_name) ==
        LET Same(keyword) == keyword = normalized_name
        IN IF Keys(Same) # {} THEN Hit(Keys(Same)) ELSE Partial(normalized_name)
  IN Exact(strip(lower(item_name)))

\* weight_patterns (lines 180-185).  Weight is a number (\d+(?:\.\d+)?),
\* optional blanks and a unit: one pattern with the fraction and one
\* without; "gram" is never tried, "g" matches first
weight_patterns ==
  LET Weight(unit) ==
        << Re(<<Plus(Digit), One({"."}), Plus(Digit), Star(Space)>> \o Lit(unit),
              FALSE, FALSE),
           Re(<<Plus(Digit), Star(Space)>> \o Lit(unit), FALSE, FALSE) >>
  IN << Weight("kg") \o Weight("kilo"), Weight("g"),
        Weight("lb") \o Weight("pound"), Weight("oz") \o Weight("ounce") >>

\* estimate_weight_from_name (lines 175-198), price in cents.  Converted is the
\* converter of the pattern, on a number in thousandths: kg, g / 1000,
\* lb * 0.453592, oz * 0.0283495 (cut to thousandths of kg)
RECURSIVE FromPattern(_, _)
FromPattern(normalized_name, p) ==
  IF p > Len(weight_patterns) THEN <<>>
  ELSE LET Converted(x) ==
             IF p = 1 THEN x
             ELSE IF p = 2 THEN x \div 1000
             ELSE IF p = 3 THEN (x * 4536) \div 10000
             ELSE (x * 283) \div 10000
           Found(m) ==
             IF m = <<>> THEN FromPattern(normalized_name, p + 1)
             ELSE <<Converted(ParseFixed(
                      SubSeq(normalized_name, MatchStart(m),
                             MatchStart(m) - 1
                             + RunLen(Digit \cup {"."}, normalized_name, MatchStart(m), Inf)),
                      3))>>
       IN Found(SearchAlt(weight_patterns[p], 1, normalized_name))

estimate_weight_from_name(item_name, price) ==
  LET Typical(food_item) ==
        IF food_item # <<>> THEN food_item[1].typical_weight_kg
        ELSE IF price < 100 THEN 100 ELSE price
      Named(w) == IF w # <<>> THEN w[1] ELSE Typical(find_food_item(item_name))
  IN Named(FromPattern(lower(item_name), 1))

\* calculate_emissions (lines 200-237): quantity in thousandths, price in cents
calculate_emissions(item_name, quantity, price) ==
  LET Result(food_item, estimated_weight) ==
        IF food_item # <<>>
        THEN [item_name |-> item_name, category |-> food_item[1].category,
              co2_per_kg |-> food_item[1].co2_per_kg,
              estimated_weight_kg |-> estimated_weight,
              quantity |-> quantity, price |-> price,
              co2_emissions_kg |-> (food_item[1].co2_per_kg * estimated_weight * quantity)
                                   \div 1000,
              confidence |-> food_item[1].confidence, source |-> food_item[1].source]
        ELSE [item_name |-> item_name, category |-> "unknown",
              co2_per_kg |-> 10,
              estimated_weight_kg |-> estimated_weight,
              quantity |-> quantity, price |-> price,
              co2_emissions_kg |-> (10 * estimated_weight * quantity) \div 1000,
              confidence |-> 3000, source |-> "Default estimate"]
  IN Result(find_food_item(item_name), estimate_weight_from_name(item_name, price))

\* get_database_stats (lines 239-252): the counts and the extremes
get_database_stats ==
  [total_items |-> Len(food_items),
   categories |-> Cardinality({food_items[k].category : k \in 1..Len(food_items)}),
   subcategories |-> Cardinality({food_items[k].subcategory : k \in 1..Len(food_items)}),
   min_co2_per_kg |-> CHOOSE x \in {food_items[k].co2_per_kg : k \in 1..Len(food_items)} :
                        \A k \in 1..Len(food_items) : x <= food_items[k].co2_per_kg,
   max_co2_per_kg |-> CHOOSE x \in {food_items[k].co2_per_kg : k \in 1..Len(food_items)} :
                        \A k \in 1..Len(food_items) : x >= food_items[k].co2_per_kg]

(***************************************************************************)
(* Bounds and inputs                                                       *)
(***************************************************************************)
\* the longest receipt text, in lines
MaxLines == 2
\* the longest text of a repeated request, in lines
MaxRepeatLines == 1
\* the longest text made of the lines of a printed receipt, in lines
MaxReceiptLines == 2
\* the longest text of a request whose result GET /ocr/last reads
MaxLastLines == 1
\* the longest text of a request whose items the food filter sorts
MaxFilterLines == 2
\* the pipeline instances that share the log file, and the appends of each
NumInstances == 2
MaxAppends == 1

\* the lines a receipt text is made of
LineUniverse ==
  { "bananas 1.99",          \* close to the dictionary name banana
    "BEEF 9.50",             \* a dictionary name in capitals: matched or not, by the build
    "lamb 7.25",             \* a dictionary name no food keyword covers
    "XYZ123456 4.00",        \* a product code
    "POP 150.00",            \* a price above the ceiling
    "BABY WIPES $3.97",      \* found by the product-indicator pass only
    "BEEF ROAST $999.00",    \* a price above the ceiling, with a $ sign
    "BEEF 4.000 kg @ $30.00/kg $120.00" }   \* sold by weight

RECURSIVE SeqsUpTo(_, _)
SeqsUpTo(S, n) ==
  IF n = 0 THEN {<<>>}
  ELSE LET shorter == SeqsUpTo(S, n - 1)
       IN shorter \cup {Append(t, l) : t \in {u \in shorter : Len(u) = n - 1}, l \in S}

\* the OCR texts: every sequence of at most MaxLines lines; <<>> is the
\* empty text
Texts == SeqsUpTo(LineUniverse, MaxLines)

\* lines as a store prints them (test_complete_pipeline.py lines 13-47): the
\* header, items and the block of totals
ReceiptLines ==
  { "STORE 3156",                     \* a store-number marker
    "WALMART",                        \* a known merchant name
    "BANANAS 1.99",                   \* a dictionary name in capitals and in the plural
    "RED ONIONS 000000004082K",       \* the name of an item sold by weight
    "0.290 kg @ $4.34/kg $1.26 D",    \* its weight, unit price and price
    "SUBTOTAL $61.91",
    "TOTAL $62.54",
    "CHANGE $5.00" }                  \* a payment line

\* What the semantic-parse collaborator call yields (call_llm_for_semantic_parse
\* lines 954-1029): "error" is a timeout, a network or HTTP error or a
\* response no parse recovers; otherwise the parsed object.
LLM_FALLBACK ==
  [is_food_item |-> FALSE, canonical_name |-> "unknown", category |-> "unknown",
   estimated_weight_kg |-> None, estimated_carbon_emissions_kg |-> None]

ParseOutcomes ==
  { [error |-> TRUE, result |-> LLM_FALLBACK],
    [error |-> FALSE, result |-> LLM_FALLBACK],
    [error |-> FALSE,
     result |-> [is_food_item |-> TRUE, canonical_name |-> "milk", category |-> "dairy",
                 estimated_weight_kg |-> Num(1000),
                 estimated_carbon_emissions_kg |-> Num(5000)]],
    \* "canonical_name": "" (or null): a food with no name
    [error |-> FALSE,
     result |-> [is_food_item |-> TRUE, canonical_name |-> "", category |-> "dairy",
                 estimated_weight_kg |-> Num(1000),
                 estimated_carbon_emissions_kg |-> Num(5000)]] }

\* What the estimation collaborator call yields (estimate_emissions_with_llm
\* lines 578-592): "error" covers every path that returns None; otherwise
\* parsed.get('estimated_kg_co2e'), which is whatever the JSON holds.
EstimateOutcomes ==
  { [error |-> TRUE, value |-> None],
    [error |-> FALSE, value |-> Num(5000)],       \* 0.5 kg
    [error |-> FALSE, value |-> Num(600000)],     \* 60 kg
    [error |-> FALSE, value |-> Num(-10000)],     \* -1 kg
    [error |-> FALSE, value |-> [t |-> "str", v |-> 0]] }     \* "n/a"

\* the global clamp of calculate_carbon_emissions, 50.0 kg CO2e
MAX_EMISSIONS == 500000

\* the arguments of calculate_emissions: a keyword, a keyword in capitals, a
\* keyword of two entries, a name holding a keyword, a name with a weight,
\* an unknown name and the empty name; quantities in thousandths, prices
\* in cents
Calls ==
  [item_name : {"steak", "Ground Beef", "Almond Milk", "milk 2 lb", "tofu 500g", "tofu", ""},
   quantity : {1000, 2000},
   price : {50, 500}]

(***************************************************************************)
(* State                                                                   *)
(***************************************************************************)
VARIABLES
  pc,                 \* where the request is: idle, extract, llm, fallback, calc, respond, parse_text, done
  endpoint,           \* "main": main.py POST /ocr ; "parser": app.py POST /ocr
  GROQ_API_KEY,       \* whether the environment sets the API key
  rf_processor,       \* whether the installed rapidfuzz preprocesses (default_process)
  text,               \* the OCR text, as its lines
  candidate_lines,    \* extract_receipt_info: candidate_lines
  matched_candidates, \* extract_receipt_info: the lines matched by the dictionary
  items,              \* extract_receipt_info: items
  i,                  \* the index of the running loop
  unknown_log,        \* the lines of unknown_items.log
  receipt_data,       \* what extract_receipt_info returned
  enhanced_items,     \* calculate_carbon_emissions: enhanced_items
  total_emissions,    \* calculate_carbon_emissions: total_emissions
  response,           \* the response of the request
  LAST_OCR_RESULT,    \* the process-wide last result
  llm_calls,          \* history: the collaborator calls made, by function and line
  llm_answered,       \* history: some collaborator call got an answer
  run,                \* 1 for a request, 2 for the same request made again
  trace,              \* the collaborator and file-system outcomes of run 1 that run 2 has yet to see
  first,              \* the text, endpoint and response of run 1, once it is done
  db_result,          \* what the last call of calculate_emissions returned
  computed,           \* history: for each enhanced item, its emissions and confidence before the safety limit
  append_failed,      \* history: an append to the log failed
  last_seen,          \* what the last GET /ocr/last returned
  log_file,           \* unknown_items.log as the file system holds it: its characters
  appenders           \* the pipeline instances appending to the log, each a call of log_unknown_item

vars == <<pc, endpoint, GROQ_API_KEY, rf_processor, text, candidate_lines, matched_candidates,
          items, i, unknown_log, receipt_data, enhanced_items, total_emissions, response,
          LAST_OCR_RESULT, llm_calls, llm_answered, computed, append_failed,
          db_result, FOOD_DICTIONARY, FOOD_NAME_SET, food_items, category_mappings,
          run, trace, first, last_seen, log_file, appenders>>

\* the bookkeeping of a repeated request
repeat == <<run, trace, first>>

\* the reader of the last result and the instances sharing the log file
concurrent == <<last_seen, log_file, appenders>>

\* the data loaded when the modules are imported
static == <<FOOD_DICTIONARY, FOOD_NAME_SET, food_items, category_mappings>>

NoResponse ==
  [status |-> 0, success |-> FALSE, items |-> <<>>, merchant |-> None, total |-> None,
   date |-> None, total_carbon_emissions |-> 0, database_stats |-> <<>>]
NoReceiptData ==
  [items |-> <<>>, merchant |-> None, total |-> None, date |-> None, error |-> FALSE]

Init ==
  /\ pc = "idle"
  /\ endpoint = "main"
  /\ GROQ_API_KEY \in BOOLEAN
  /\ rf_processor \in BOOLEAN
  /\ text = <<>>
  /\ candidate_lines = <<>>
  /\ matched_candidates = {}
  /\ items = <<>>
  /\ i = 1
  /\ unknown_log = <<>>
  /\ receipt_data = NoReceiptData
  /\ enhanced_items = <<>>
  /\ total_emissions = 0
  /\ response = NoResponse
  /\ LAST_OCR_RESULT = <<>>
  /\ llm_calls = {}
  /\ llm_answered = FALSE
  /\ computed = <<>>
  /\ append_failed = FALSE
  /\ db_result = <<>>
  /\ run = 1
  /\ trace = <<>>
  /\ first = <<>>
  /\ FOOD_DICTIONARY = food_dictionary_csv
  /\ FOOD_NAME_SET = {lower(food_dictionary_csv[k].name) : k \in 1..Len(food_dictionary_csv)}
  /\ food_items = _load_food_database
  /\ category_mappings = _create_category_mappings(<<>>, food_items, 1)
  /\ last_seen = <<>>
  /\ log_file = ""
  /\ appenders = [p \in 1..NumInstances |-> [pc |-> "idle", pos |-> 0, buffer |-> "", entries |-> <<>>]]

(***************************************************************************)
(* main.py extract_receipt_info: resolution (lines 478-553)                *)
(***************************************************************************)
\* the item of a dictionary match (lines 484-495)
DictionaryItem(candidate, m) ==
  [name |-> safe_str(Str(FOOD_DICTIONARY[m.row].canonical)),
   total_price |-> candidate.price,
   quantity |-> candidate.quantity,
   confidence |-> m.confidence,
   category |-> safe_str(Str(FOOD_DICTIONARY[m.row].category)),
   emissions_kg_per_kg |-> safe_float(Num(FOOD_DICTIONARY[m.row].emissions_kg_per_kg)),
   original_name |-> safe_str(Str(candidate.name)),
   original_line |-> safe_str(Str(candidate.original_line)),
   source |-> "dictionary",
   estimated_weight_kg |-> None,
   carbon_emissions |-> None]

\* the item of an accepted semantic parse (lines 507-519)
LLMItem(candidate, llm_result) ==
  [name |-> safe_str(Str(llm_result.canonical_name)),
   total_price |-> candidate.price,
   quantity |-> candidate.quantity,
   confidence |-> 7000,
   category |-> safe_str(Str(llm_result.category)),
   emissions_kg_per_kg |-> None,
   original_name |-> safe_str(Str(candidate.name)),
   original_line |-> safe_str(Str(candidate.original_line)),
   source |-> "llm",
   estimated_weight_kg |-> safe_float(llm_result.estimated_weight_kg),
   carbon_emissions |-> safe_float(llm_result.estimated_carbon_emissions_kg)]

\* the item of the fallback (lines 527-539)
UnknownItem(candidate) ==
  [name |-> safe_str(Str(candidate.name)),
   total_price |-> candidate.price,
   quantity |-> candidate.quantity,
   confidence |-> 3000,
   category |-> "unknown",
   emissions_kg_per_kg |-> None,
   original_name |-> safe_str(Str(candidate.name)),
   original_line |-> safe_str(Str(candidate.original_line)),
   source |-> "unknown",
   estimated_weight_kg |-> None,
   carbon_emissions |-> None]

\* the dictionary loop (lines 481-496) over candidates k..: the items and
\* the matched lines
RECURSIVE DictionaryStage(_, _, _)
DictionaryStage(cands, k, proc) ==
  IF k > Len(cands) THEN [items |-> <<>>, matched |-> {}]
  ELSE LET Matched(m, rest) ==
             IF m.row # 0
             THEN [items |-> <<DictionaryItem(cands[k], m)>> \o rest.items,
                   matched |-> {cands[k].original_line} \cup rest.matched]
             ELSE rest
       IN Matched(fuzzy_match_food(cands[k].name, proc), DictionaryStage(cands, k + 1, proc))

\* unmatched_candidates without its condition: every candidate
EveryCandidate(cands, matched) == cands

\* unmatched_candidates (line 500)
RECURSIVE Unmatched(_, _)
Unmatched(cands, matched) ==
  IF cands = <<>> THEN <<>>
  ELSE (IF cands[1].original_line \notin matched THEN <<cands[1]>> ELSE <<>>)
       \o Unmatched(Tail(cands), matched)

unmatched_candidates == Unmatched(candidate_lines, matched_candidates)

\* the line log_unknown_item writes (the timestamp is left out)
LogEntry(candidate) == [name |-> candidate.name, original_line |-> candidate.original_line]

\* the except branch of extract_receipt_info (lines 546-553)
ExtractFailed ==
  [items |-> <<>>, merchant |-> None, total |-> None, date |-> None, error |-> TRUE]

\* what extract_receipt_info returns (lines 540-545)
Extracted(its, lines) ==
  [items |-> its,
   merchant |-> Str(safe_str(main_merchant(lines))),
   total |-> main_total(lines, None),
   date |-> Str(safe_str(main_date(lines))),
   error |-> FALSE]

\* where process_receipt goes once extract_receipt_info has returned its
\* items: the loop of calculate_carbon_emissions, or past it
AfterExtract(its) == IF its = <<>> THEN "respond" ELSE "calc"

(***************************************************************************)
(* Actions                                                                 *)
(***************************************************************************)
\* A request arrives and the OCR collaborator returns its text.  main.py
\* raises on an empty text (lines 739-740, 801-803).
Receive(t, ep) ==
  /\ pc = "idle"
  /\ text' = t
  /\ endpoint' = ep
  /\ IF ep = "parser" THEN /\ pc' = "parse_text"
                           /\ response' = response
     ELSE IF t = <<>> THEN /\ pc' = "done"
                           /\ response' = [NoResponse EXCEPT !.status = 500]
     ELSE /\ pc' = "extract"
          /\ response' = response
  /\ UNCHANGED <<run, trace, first, static, db_result, concurrent, GROQ_API_KEY, rf_processor, computed, candidate_lines, matched_candidates, items, i,
                 unknown_log, receipt_data, enhanced_items, total_emissions,
                 LAST_OCR_RESULT, llm_calls, llm_answered, append_failed>>

\* extract_receipt_info up to its first collaborator call (lines 281-500)
ResolveDictionary ==
  /\ pc = "extract"
  /\ candidate_lines' = Candidates(text)
  /\ LET Resolved(stage) == /\ items' = stage.items
                            /\ matched_candidates' = stage.matched
     IN Resolved(DictionaryStage(candidate_lines', 1, rf_processor))
  /\ pc' = IF Unmatched(candidate_lines', matched_candidates') # <<>> THEN "llm" ELSE "fallback"
  /\ i' = 1
  /\ UNCHANGED <<run, trace, first, static, db_result, concurrent, endpoint, GROQ_API_KEY, rf_processor, computed, text, unknown_log, receipt_data,
                 enhanced_items, total_emissions, response, LAST_OCR_RESULT, llm_calls,
                 llm_answered, append_failed>>

\* One turn of the loop over unmatched_candidates (lines 503-521): the
\* collaborator call, then the item or the log entry.  log_unknown_item
\* opens and writes a file, which may raise; the exception ends
\* extract_receipt_info in its except branch.
SemanticParseWith(o, written) ==
  /\ pc = "llm"
  /\ LET candidate == unmatched_candidates[i]
         more == i < Len(unmatched_candidates)
     IN LET llm_result == o.result
            accepted == llm_result.is_food_item /\ llm_result.canonical_name # "unknown"
        IN /\ llm_calls' = IF GROQ_API_KEY
                           THEN llm_calls \cup {[fn |-> "parse", line |-> candidate.original_line]}
                           ELSE llm_calls
           /\ llm_answered' = (llm_answered \/ ~o.error)
           /\ IF accepted
              THEN /\ written
                   /\ items' = Append(items, LLMItem(candidate, llm_result))
                   /\ pc' = IF more THEN "llm" ELSE "fallback"
                   /\ i' = IF more THEN i + 1 ELSE 1
                   /\ UNCHANGED <<unknown_log, receipt_data, append_failed>>
              ELSE IF written
              THEN /\ unknown_log' = Append(unknown_log, LogEntry(candidate))
                   /\ pc' = IF more THEN "llm" ELSE "fallback"
                   /\ i' = IF more THEN i + 1 ELSE 1
                   /\ UNCHANGED <<items, receipt_data, append_failed>>
              ELSE /\ append_failed' = TRUE
                   /\ receipt_data' = ExtractFailed
                   /\ pc' = AfterExtract(ExtractFailed.items)
                   /\ i' = 1
                   /\ UNCHANGED <<items, unknown_log>>
  /\ UNCHANGED <<static, db_result, concurrent, endpoint, GROQ_API_KEY, rf_processor, computed, text, candidate_lines,
                 matched_candidates, enhanced_items, total_emissions, response,
                 LAST_OCR_RESULT>>

\* what call_llm_for_semantic_parse may return: without the API key it
\* returns its fallback at once (lines 952-954)
ParseResponses ==
  IF GROQ_API_KEY THEN ParseOutcomes ELSE {[error |-> TRUE, result |-> LLM_FALLBACK]}

SemanticParse ==
  /\ \E o \in ParseResponses, written \in BOOLEAN : SemanticParseWith(o, written)
  /\ UNCHANGED repeat

\* The fallback and the return (lines 523-545): with no item so far every
\* candidate is logged and added as unknown.  failed = 0: every append
\* succeeded; failed = k: the append for candidate k raised.
FallbackWith(failed) ==
  /\ pc = "fallback"
  /\ IF items = <<>>
     THEN LET n == IF failed = 0 THEN Len(candidate_lines) ELSE failed - 1
          IN /\ unknown_log' = unknown_log \o [k \in 1..n |-> LogEntry(candidate_lines[k])]
             /\ items' = [k \in 1..n |-> UnknownItem(candidate_lines[k])]
             /\ append_failed' = (failed # 0)
             /\ receipt_data' = IF failed = 0 THEN Extracted(items', text)
                                ELSE ExtractFailed
     ELSE /\ receipt_data' = Extracted(items, text)
          /\ UNCHANGED <<unknown_log, items, append_failed>>
  /\ pc' = AfterExtract(receipt_data'.items)
  /\ i' = 1
  /\ UNCHANGED <<static, db_result, concurrent, endpoint, GROQ_API_KEY, rf_processor, computed, text, candidate_lines,
                 matched_candidates, enhanced_items, total_emissions, response,
                 LAST_OCR_RESULT, llm_calls, llm_answered>>

Fallback ==
  /\ \E failed \in IF items = <<>> THEN 0..Len(candidate_lines) ELSE {0} : FallbackWith(failed)
  /\ UNCHANGED repeat

\* the safety limit without its marks: the value is capped, the confidence
\* and the source stay
ClampValueOnly(co2_emissions, confidence, source) ==
  [co2_emissions |-> IF co2_emissions.t = "none" THEN 0
                     ELSE IF co2_emissions.v > MAX_EMISSIONS THEN MAX_EMISSIONS
                     ELSE co2_emissions.v,
   confidence |-> confidence,
   source |-> source]

\* the safety limit of calculate_carbon_emissions (lines 643-648) on a
\* numeric or missing estimate
Clamp(co2_emissions, confidence, source) ==
  LET co2 == IF co2_emissions.t = "none" THEN 0 ELSE co2_emissions.v
  IN IF co2 > MAX_EMISSIONS
     THEN [co2_emissions |-> MAX_EMISSIONS, confidence |-> 3000, source |-> "Capped estimate"]
     ELSE [co2_emissions |-> co2, confidence |-> confidence, source |-> source]

\* the enhanced item (lines 650-660)
Enhance(item, c) ==
  [item EXCEPT !.name = safe_str(Str(item.name)),
               !.category = safe_str(Str(item.category)),
               !.original_name = safe_str(Str(item.original_name)),
               !.original_line = safe_str(Str(item.original_line)),
               !.carbon_emissions = c.co2_emissions,
               !.confidence = c.confidence,
               !.source = c.source,
               !.estimated_weight_kg = safe_float(item.estimated_weight_kg)]

\* a turn of the loop of calculate_carbon_emissions without the food filter
CalcItemUnfiltered(e) ==
  /\ pc = "calc"
  /\ LET item == receipt_data.items[i]
         dataset == item.emissions_kg_per_kg.t = "num"
         asked == is_likely_food_item(safe_str(Str(item.name))) /\ ~dataset
     IN LET co2_emissions == IF dataset
                             THEN Num(item.emissions_kg_per_kg.v * item.quantity)
                             ELSE e.value
            c == Clamp(co2_emissions,
                       IF dataset THEN item.confidence ELSE 5000,
                       IF dataset THEN "dataset" ELSE "ai_estimate")
        IN /\ llm_calls' = IF asked /\ GROQ_API_KEY
                           THEN llm_calls \cup {[fn |-> "estimate", line |-> item.original_line]}
                           ELSE llm_calls
           /\ llm_answered' = (llm_answered \/ ~e.error)
           /\ IF co2_emissions.t = "str"
              THEN UNCHANGED <<enhanced_items, total_emissions, computed>>
              ELSE /\ enhanced_items' = Append(enhanced_items, Enhance(item, c))
                   /\ total_emissions' = total_emissions + c.co2_emissions
                   /\ computed' = Append(computed,
                                         [co2_emissions |-> IF co2_emissions.t = "none" THEN 0
                                                            ELSE co2_emissions.v,
                                          confidence |-> IF dataset THEN item.confidence ELSE 5000])
  /\ pc' = IF i < Len(receipt_data.items) THEN "calc" ELSE "respond"
  /\ i' = IF i < Len(receipt_data.items) THEN i + 1 ELSE 1
  /\ UNCHANGED <<static, db_result, concurrent, endpoint, GROQ_API_KEY, rf_processor, text, candidate_lines,
                 matched_candidates, items, unknown_log, receipt_data, response,
                 LAST_OCR_RESULT, append_failed>>


\* One turn of the loop of calculate_carbon_emissions (lines 623-665).  An
\* item with no dataset value costs a call of estimate_emissions_with_llm;
\* a non-numeric estimate raises at the comparison with 50.0 and the item
\* is left out.
CalcItemWith(e) ==
  /\ pc = "calc"
  /\ LET item == receipt_data.items[i]
         dataset == item.emissions_kg_per_kg.t = "num"
         asked == is_likely_food_item(safe_str(Str(item.name))) /\ ~dataset
     IN LET co2_emissions == IF dataset
                             THEN Num(item.emissions_kg_per_kg.v * item.quantity)
                             ELSE e.value
            c == Clamp(co2_emissions,
                       IF dataset THEN item.confidence ELSE 5000,
                       IF dataset THEN "dataset" ELSE "ai_estimate")
        IN /\ llm_calls' = IF asked /\ GROQ_API_KEY
                           THEN llm_calls \cup {[fn |-> "estimate", line |-> item.original_line]}
                           ELSE llm_calls
           /\ llm_answered' = (llm_answered \/ ~e.error)
           /\ IF ~is_likely_food_item(safe_str(Str(item.name))) \/ co2_emissions.t = "str"
              THEN UNCHANGED <<enhanced_items, total_emissions, computed>>
              ELSE /\ enhanced_items' = Append(enhanced_items, Enhance(item, c))
                   /\ total_emissions' = total_emissions + c.co2_emissions
                   /\ computed' = Append(computed,
                                         [co2_emissions |-> IF co2_emissions.t = "none" THEN 0
                                                            ELSE co2_emissions.v,
                                          confidence |-> IF dataset THEN item.confidence ELSE 5000])
  /\ pc' = IF i < Len(receipt_data.items) THEN "calc" ELSE "respond"
  /\ i' = IF i < Len(receipt_data.items) THEN i + 1 ELSE 1
  /\ UNCHANGED <<static, db_result, concurrent, endpoint, GROQ_API_KEY, rf_processor, text, candidate_lines,
                 matched_candidates, items, unknown_log, receipt_data, response,
                 LAST_OCR_RESULT, append_failed>>

\* what estimate_emissions_with_llm may return for the item of this turn; it
\* is called only for a likely food item with no dataset value and the API key
EstimateResponses ==
  LET item == receipt_data.items[i]
      asked == is_likely_food_item(safe_str(Str(item.name)))
               /\ item.emissions_kg_per_kg.t # "num"
  IN IF asked /\ GROQ_API_KEY THEN EstimateOutcomes ELSE {[error |-> TRUE, value |-> None]}

CalcItem ==
  /\ pc = "calc"
  /\ \E e \in EstimateResponses : CalcItemWith(e)
  /\ UNCHANGED repeat

\* the ReceiptItem built from an enhanced item (lines 757-768)
ReceiptItem(item) ==
  [name |-> safe_str(Str(item.name)),
   quantity |-> IF item.quantity = 0 THEN 1000 ELSE item.quantity,
   total_price |-> item.total_price,
   category |-> safe_str(Str(item.category)),
   carbon_emissions |-> item.carbon_emissions,
   confidence |-> item.confidence,
   estimated_weight_kg |-> safe_float(item.estimated_weight_kg),
   source |-> safe_str(Str(item.source))]

\* the Field constraints of ReceiptItem (lines 61-71): ge=0, le=1
Validates(r) ==
  /\ r.quantity >= 0
  /\ r.total_price >= 0
  /\ r.carbon_emissions >= 0
  /\ r.confidence >= 0 /\ r.confidence <= 10000
  /\ r.estimated_weight_kg.t = "num" => r.estimated_weight_kg.v >= 0

\* process_receipt if it stored a result only while the store is empty
RespondStoringOnce ==
  /\ pc = "respond"
  /\ LET receipt_items == [k \in 1..Len(enhanced_items) |-> ReceiptItem(enhanced_items[k])]
         result == [status |-> 200, success |-> TRUE, items |-> receipt_items,
                    merchant |-> Str(safe_str(receipt_data.merchant)),
                    total |-> safe_float(receipt_data.total),
                    date |-> Str(safe_str(receipt_data.date)),
                    total_carbon_emissions |-> total_emissions,
                    database_stats |-> <<get_database_stats>>]
     IN IF \A k \in 1..Len(receipt_items) : Validates(receipt_items[k])
        THEN /\ response' = result
             /\ LAST_OCR_RESULT' = IF LAST_OCR_RESULT = <<>> THEN <<result>> ELSE LAST_OCR_RESULT
        ELSE /\ response' = [NoResponse EXCEPT !.status = 500]
             /\ UNCHANGED LAST_OCR_RESULT
  /\ pc' = "done"
  /\ UNCHANGED <<run, trace, first, static, db_result, concurrent, endpoint, GROQ_API_KEY,
                 rf_processor, computed, text, candidate_lines, matched_candidates, items, i,
                 unknown_log, receipt_data, enhanced_items, total_emissions, llm_calls,
                 llm_answered, append_failed>>

\* process_receipt if it added the last result's total to the new one
RespondCumulative ==
  /\ pc = "respond"
  /\ LET receipt_items == [k \in 1..Len(enhanced_items) |-> ReceiptItem(enhanced_items[k])]
         result == [status |-> 200, success |-> TRUE, items |-> receipt_items,
                    merchant |-> Str(safe_str(receipt_data.merchant)),
                    total |-> safe_float(receipt_data.total),
                    date |-> Str(safe_str(receipt_data.date)),
                    total_carbon_emissions |->
                      total_emissions + (IF LAST_OCR_RESULT = <<>> THEN 0
                                         ELSE LAST_OCR_RESULT[1].total_carbon_emissions),
                    database_stats |-> <<get_database_stats>>]
     IN IF \A k \in 1..Len(receipt_items) : Validates(receipt_items[k])
        THEN /\ response' = result
             /\ LAST_OCR_RESULT' = <<result>>
        ELSE /\ response' = [NoResponse EXCEPT !.status = 500]
             /\ UNCHANGED LAST_OCR_RESULT
  /\ pc' = "done"
  /\ UNCHANGED <<run, trace, first, static, db_result, concurrent, endpoint, GROQ_API_KEY, rf_processor,
                 computed, text, candidate_lines, matched_candidates, items, i, unknown_log,
                 receipt_data, enhanced_items, total_emissions, llm_calls, llm_answered,
                 append_failed>>

\* the rest of process_receipt (lines 749-803): the response models, the
\* last result, the response; a validation error becomes a 500
Respond ==
  /\ pc = "respond"
  /\ LET receipt_items == [k \in 1..Len(enhanced_items) |-> ReceiptItem(enhanced_items[k])]
         result == [status |-> 200, success |-> TRUE, items |-> receipt_items,
                    merchant |-> Str(safe_str(receipt_data.merchant)),
                    total |-> safe_float(receipt_data.total),
                    date |-> Str(safe_str(receipt_data.date)),
                    total_carbon_emissions |-> total_emissions,
                    database_stats |-> <<get_database_stats>>]
     IN IF \A k \in 1..Len(receipt_items) : Validates(receipt_items[k])
        THEN /\ response' = result
             /\ LAST_OCR_RESULT' = <<result>>
        ELSE /\ response' = [NoResponse EXCEPT !.status = 500]
             /\ UNCHANGED LAST_OCR_RESULT
  /\ pc' = "done"
  /\ UNCHANGED <<run, trace, first, static, db_result, concurrent, endpoint, GROQ_API_KEY, rf_processor, computed, text, candidate_lines,
                 matched_candidates, items, i, unknown_log, receipt_data, enhanced_items,
                 total_emissions, llm_calls, llm_answered, append_failed>>

\* app.py ocr_receipt_json (lines 138-151): the parser's record, marked a
\* success
ParseText ==
  /\ pc = "parse_text"
  /\ LET Json(parsed_result) ==
           [status |-> 200, success |-> TRUE, items |-> parsed_result.items,
            merchant |-> parsed_result.merchant, total |-> parsed_result.total,
            date |-> parsed_result.date,
            total_carbon_emissions |-> parsed_result.total_carbon_emissions,
            database_stats |-> <<>>]
     IN response' = Json(parse_receipt_text(text))
  /\ pc' = "done"
  /\ UNCHANGED <<run, trace, first, static, db_result, concurrent, endpoint, GROQ_API_KEY, rf_processor, computed, text, candidate_lines,
                 matched_candidates, items, i, unknown_log, receipt_data, enhanced_items,
                 total_emissions, LAST_OCR_RESULT, llm_calls, llm_answered, append_failed>>

\* calculate_emissions if it remembered each name it has resolved as a keyword
CalculateEmissionsCaching(item_name, quantity, price) ==
  /\ pc = "idle"
  /\ db_result' = <<calculate_emissions(item_name, quantity, price)>>
  /\ category_mappings' =
       Put(category_mappings, lower(item_name),
           [category |-> db_result'[1].category, subcategory |-> "cached",
            co2_per_kg |-> db_result'[1].co2_per_kg,
            typical_weight_kg |-> db_result'[1].estimated_weight_kg,
            source |-> db_result'[1].source, confidence |-> db_result'[1].confidence])
  /\ endpoint' = "emissions_db"
  /\ pc' = "done"
  /\ UNCHANGED <<run, trace, first, concurrent, FOOD_DICTIONARY, FOOD_NAME_SET, food_items,
                 GROQ_API_KEY, rf_processor,
                 computed, text, candidate_lines, matched_candidates, items, i, unknown_log,
                 receipt_data, enhanced_items, total_emissions, response, LAST_OCR_RESULT,
                 llm_calls, llm_answered, append_failed>>

\* a call of emissions_db.calculate_emissions (lines 258-259) by a client of
\* the module
CalculateEmissions(item_name, quantity, price) ==
  /\ pc = "idle"
  /\ db_result' = <<calculate_emissions(item_name, quantity, price)>>
  /\ endpoint' = "emissions_db"
  /\ pc' = "done"
  /\ UNCHANGED <<run, trace, first, static, concurrent, GROQ_API_KEY, rf_processor, computed,
                 text, candidate_lines,
                 matched_candidates, items, i, unknown_log, receipt_data, enhanced_items,
                 total_emissions, response, LAST_OCR_RESULT, llm_calls, llm_answered,
                 append_failed>>

Next ==
  \/ \E t \in Texts, ep \in {"main", "parser"} : Receive(t, ep)
  \/ \E call \in Calls : CalculateEmissions(call.item_name, call.quantity, call.price)
  \/ ResolveDictionary
  \/ SemanticParse
  \/ Fallback
  \/ CalcItem
  \/ Respond
  \/ ParseText

Spec == Init /\ [][Next]_vars

(***************************************************************************)
(* The same request twice.  Run 1 is a request as above; its collaborator  *)
(* and file-system outcomes are recorded.  Run 2 is the same text at the   *)
(* same endpoint in the process state run 1 left behind, and sees the same *)
(* outcomes in the same order.                                             *)
(***************************************************************************)
\* a turn of the loop over unmatched_candidates, recorded or replayed
SemanticParseRepeat ==
  /\ pc = "llm"
  /\ IF run = 1
     THEN \E o \in ParseResponses, written \in BOOLEAN :
            /\ SemanticParseWith(o, written)
            /\ trace' = Append(trace, [call |-> "llm", outcome |-> o, written |-> written])
     ELSE /\ trace # <<>>
          /\ Head(trace).call = "llm"
          /\ SemanticParseWith(Head(trace).outcome, Head(trace).written)
          /\ trace' = Tail(trace)
  /\ UNCHANGED <<run, first>>

\* the fallback and the return, recorded or replayed
FallbackRepeat ==
  /\ pc = "fallback"
  /\ IF run = 1
     THEN \E failed \in IF items = <<>> THEN 0..Len(candidate_lines) ELSE {0} :
            /\ FallbackWith(failed)
            /\ trace' = Append(trace, [call |-> "fallback", outcome |-> failed,
                                       written |-> failed = 0])
     ELSE /\ trace # <<>>
          /\ Head(trace).call = "fallback"
          /\ FallbackWith(Head(trace).outcome)
          /\ trace' = Tail(trace)
  /\ UNCHANGED <<run, first>>

\* a turn of the loop of calculate_carbon_emissions, recorded or replayed
CalcItemRepeat ==
  /\ pc = "calc"
  /\ IF run = 1
     THEN \E e \in EstimateResponses :
            /\ CalcItemWith(e)
            /\ trace' = Append(trace, [call |-> "calc", outcome |-> e, written |-> TRUE])
     ELSE /\ trace # <<>>
          /\ Head(trace).call = "calc"
          /\ CalcItemWith(Head(trace).outcome)
          /\ trace' = Tail(trace)
  /\ UNCHANGED <<run, first>>

\* The request of run 1 is answered and made again.  The locals of
\* process_receipt, extract_receipt_info and calculate_carbon_emissions are
\* fresh in every call; unknown_items.log, LAST_OCR_RESULT and the loaded
\* data are the process's and stay.
Again ==
  /\ pc = "done"
  /\ endpoint \in {"main", "parser"}
  /\ run = 1
  /\ first' = [text |-> text, endpoint |-> endpoint, response |-> response]
  /\ run' = 2
  /\ pc' = "idle"
  /\ text' = <<>>
  /\ candidate_lines' = <<>>
  /\ matched_candidates' = {}
  /\ items' = <<>>
  /\ i' = 1
  /\ receipt_data' = NoReceiptData
  /\ enhanced_items' = <<>>
  /\ total_emissions' = 0
  /\ response' = NoResponse
  /\ llm_calls' = {}
  /\ llm_answered' = FALSE
  /\ computed' = <<>>
  /\ append_failed' = FALSE
  /\ UNCHANGED <<static, db_result, concurrent, endpoint, GROQ_API_KEY, rf_processor, unknown_log,
                 LAST_OCR_RESULT, trace>>

NextRepeat ==
  \/ \E t \in {u \in Texts : Len(u) <= MaxRepeatLines}, ep \in {"main", "parser"} :
       run = 1 /\ Receive(t, ep)
  \/ run = 2 /\ Receive(first.text, first.endpoint)
  \/ ResolveDictionary
  \/ SemanticParseRepeat
  \/ FallbackRepeat
  \/ CalcItemRepeat
  \/ Respond
  \/ ParseText
  \/ Again

SpecRepeat == Init /\ [][NextRepeat]_vars

(***************************************************************************)
(* A request whose text is made of the lines of a printed receipt          *)
(***************************************************************************)
NextReceipts ==
  \/ \E t \in SeqsUpTo(ReceiptLines, MaxReceiptLines), ep \in {"main", "parser"} :
       Receive(t, ep)
  \/ ResolveDictionary
  \/ SemanticParse
  \/ Fallback
  \/ CalcItem
  \/ Respond
  \/ ParseText

SpecReceipts == Init /\ [][NextReceipts]_vars

\* one request of main.py whose text has items the food filter keeps (bananas),
\* items it drops although the dictionary knows them (lamb) and items nothing
\* knows (a product code)
NextFilter ==
  \/ \E t \in SeqsUpTo({"bananas 1.99", "lamb 7.25", "XYZ123456 4.00"}, MaxFilterLines) :
       Receive(t, "main")
  \/ ResolveDictionary
  \/ SemanticParse
  \/ Fallback
  \/ CalcItem
  \/ Respond

SpecFilter == Init /\ [][NextFilter]_vars

(***************************************************************************)
(* The last result and its reader                                          *)
(***************************************************************************)
\* get_last_ocr_result (main.py lines 838-843): the stored result, or the
\* failure while the store is empty
get_last_ocr_result ==
  IF LAST_OCR_RESULT = <<>> THEN [success |-> FALSE, data |-> <<>>]
  ELSE [success |-> TRUE, data |-> LAST_OCR_RESULT]

\* GET /ocr/last.  process_receipt is a coroutine with no await in its body
\* (lines 725-803), and the service is one process with one event loop
\* (uvicorn.run, line 1033): a read is served before or after a whole
\* request, never within one.
GetLast ==
  /\ pc \in {"idle", "done"}
  /\ last_seen' = <<get_last_ocr_result>>
  /\ UNCHANGED <<repeat, static, db_result, log_file, appenders, pc, endpoint, GROQ_API_KEY,
                 rf_processor, computed, text, candidate_lines, matched_candidates, items, i,
                 unknown_log, receipt_data, enhanced_items, total_emissions, response,
                 LAST_OCR_RESULT, llm_calls, llm_answered, append_failed>>

\* two requests of main.py one after the other, each with a text of its own
\* (the empty text is the request that fails), and reads of the last result
\* before, between and after them
NextLast ==
  \/ \E t \in SeqsUpTo({"bananas 1.99", "XYZ123456 4.00"}, MaxLastLines) : Receive(t, "main")
  \/ ResolveDictionary
  \/ SemanticParse
  \/ Fallback
  \/ CalcItem
  \/ Respond
  \/ Again
  \/ GetLast

SpecLast == Init /\ [][NextLast]_vars

(***************************************************************************)
(* The unknown-items log shared by pipeline instances                      *)
(***************************************************************************)
\* log_unknown_item (main.py lines 110-112) as one instance runs it next to
\* others, by its system calls.  open(UNKNOWN_LOG_PATH, 'a'): the file is
\* opened with O_APPEND and the position is set to its end as it is now.
OpenLog(p) ==
  /\ appenders[p].pc = "idle"
  /\ Len(appenders[p].entries) < MaxAppends
  /\ appenders' = [appenders EXCEPT ![p].pc = "open", ![p].pos = Len(log_file)]
  /\ UNCHANGED <<repeat, static, db_result, last_seen, log_file, pc, endpoint, GROQ_API_KEY,
                 rf_processor, computed, text, candidate_lines, matched_candidates, items, i,
                 unknown_log, receipt_data, enhanced_items, total_emissions, response,
                 LAST_OCR_RESULT, llm_calls, llm_answered, append_failed>>

\* f.write(f"{datetime.now().isoformat()} | {item_name} | {original_line}\n"):
\* the whole entry goes to the buffer of the file object
WriteLog(p, now, item_name, original_line) ==
  /\ appenders[p].pc = "open"
  /\ appenders' = [appenders EXCEPT
                     ![p].pc = "written",
                     ![p].buffer = now \o " | " \o item_name \o " | " \o original_line \o "\n"]
  /\ UNCHANGED <<repeat, static, db_result, last_seen, log_file, pc, endpoint, GROQ_API_KEY,
                 rf_processor, computed, text, candidate_lines, matched_candidates, items, i,
                 unknown_log, receipt_data, enhanced_items, total_emissions, response,
                 LAST_OCR_RESULT, llm_calls, llm_answered, append_failed>>

\* leaving the with block if the buffer were written at the position the
\* file had when it was opened, over what is there
CloseLogAtOpenPosition(p) ==
  /\ appenders[p].pc = "written"
  /\ log_file' = SubSeq(log_file, 1, appenders[p].pos) \o appenders[p].buffer
                  \o SubSeq(log_file, appenders[p].pos + Len(appenders[p].buffer) + 1,
                            Len(log_file))
  /\ appenders' = [appenders EXCEPT
                     ![p] = [pc |-> "idle", pos |-> 0, buffer |-> "",
                             entries |-> Append(@.entries, @.buffer)]]
  /\ UNCHANGED <<repeat, static, db_result, last_seen, pc, endpoint, GROQ_API_KEY,
                 rf_processor, computed, text, candidate_lines, matched_candidates, items, i,
                 unknown_log, receipt_data, enhanced_items, total_emissions, response,
                 LAST_OCR_RESULT, llm_calls, llm_answered, append_failed>>

\* leaving the with block: close flushes the buffer in one write on the
\* descriptor, and a write on a descriptor opened with O_APPEND goes to the
\* end of the file as it is at the write, whatever the position was
CloseLog(p) ==
  /\ appenders[p].pc = "written"
  /\ log_file' = log_file \o appenders[p].buffer
  /\ appenders' = [appenders EXCEPT
                     ![p] = [pc |-> "idle", pos |-> 0, buffer |-> "",
                             entries |-> Append(@.entries, @.buffer)]]
  /\ UNCHANGED <<repeat, static, db_result, last_seen, pc, endpoint, GROQ_API_KEY,
                 rf_processor, computed, text, candidate_lines, matched_candidates, items, i,
                 unknown_log, receipt_data, enhanced_items, total_emissions, response,
                 LAST_OCR_RESULT, llm_calls, llm_answered, append_failed>>

\* the instances run side by side: any of them takes its next step; the
\* entries differ by their candidates
NextLog ==
  \E p \in 1..NumInstances :
    \/ OpenLog(p)
    \/ \E now \in {"T10:00:01"},
          candidate \in {[name |-> "xyz123456", original_line |-> "XYZ123456 4.00"],
                         [name |-> "pop", original_line |-> "POP 150.00"]} :
         WriteLog(p, now, candidate.name, candidate.original_line)
    \/ CloseLog(p)

SpecLog == Init /\ [][NextLog]_vars

(***************************************************************************)
(* Properties                                                              *)
(***************************************************************************)
\* calculate_carbon_emissions has returned enhanced_items and total_emissions
Returned == endpoint = "main" /\ pc \in {"respond", "done"}

\* the request of main.py is over
Done == endpoint = "main" /\ pc = "done"

RECURSIVE SumOverItems(_)
SumOverItems(its) ==
  IF its = <<>> THEN 0 ELSE its[1].carbon_emissions + SumOverItems(Tail(its))

ConfidenceInRange(its) ==
  \A k \in 1..Len(its) : its[k].confidence >= 0 /\ its[k].confidence <= 10000

\* the number of candidates with this line that neither the dictionary stage
\* nor the semantic parse turned into an item
UnresolvedCount(line) ==
  Cardinality({k \in 1..Len(candidate_lines) : candidate_lines[k].original_line = line})
  - Cardinality({k \in 1..Len(items) :
                   items[k].original_line = line /\ items[k].source \in {"dictionary", "llm"}})

\* C1: whatever the collaborator answers (a negative, missing or
\* non-numeric estimate included), every item calculate_carbon_emissions
\* returns has 0 <= carbon_emissions <= 50 kg.
C1_EmissionsWithinBounds ==
  Returned =>
    \A k \in 1..Len(enhanced_items) :
      /\ enhanced_items[k].carbon_emissions >= 0
      /\ enhanced_items[k].carbon_emissions <= MAX_EMISSIONS

\* C2: the reported total is exactly the sum of carbon_emissions over the
\* items of the returned record, for calculate_carbon_emissions and for
\* parse_receipt_text: skipped and dropped items add nothing, a returned
\* item adds its clamped value.
C2_TotalIsSumOfReturnedItems ==
  /\ Returned => total_emissions = SumOverItems(enhanced_items)
  /\ response.success => response.total_carbon_emissions = SumOverItems(response.items)

\* a returned record of two items, one of them clamped
C2_Witness ==
  /\ Done
  /\ response.success
  /\ Len(response.items) = 2
  /\ \E k \in 1..2 : response.items[k].carbon_emissions = MAX_EMISSIONS
  /\ \E k \in 1..2 : response.items[k].carbon_emissions \in 1..(MAX_EMISSIONS - 1)

\* C3: every item of every record has 0 <= confidence <= 1, whichever
\* stage resolved it.
C3_ConfidenceInUnitInterval ==
  /\ ConfidenceInRange(items)
  /\ ConfidenceInRange(receipt_data.items)
  /\ ConfidenceInRange(enhanced_items)
  /\ ConfidenceInRange(response.items)

\* a response holding a fuzzy match with its score / 100 and a capped item
C3_Witness ==
  /\ Done
  /\ response.success
  /\ \E k \in 1..Len(response.items) :
       response.items[k].source = "dataset" /\ response.items[k].confidence \in 8000..9999
  /\ \E k \in 1..Len(response.items) :
       response.items[k].source = "Capped estimate" /\ response.items[k].confidence = 3000

\* C4: no call to the LLM collaborator is ever made for a candidate the
\* dictionary stage matched.
C4_MatchedNeverReachLLM ==
  \A call \in llm_calls : call.line \notin matched_candidates

\* a receipt with a matched candidate and a collaborator call for another
C4_Witness ==
  /\ Done
  /\ response.success
  /\ matched_candidates # {}
  /\ \E call \in llm_calls : call.fn = "parse"
  /\ \E k \in 1..Len(enhanced_items) : enhanced_items[k].original_line \in matched_candidates

\* C5: with the collaborator unreachable on every call, a receipt with
\* non-empty text gets a successful response that holds every item the
\* dictionary resolved.
C5_GracefulDegradation ==
  (Done /\ text # <<>> /\ ~llm_answered) =>
    /\ response.status = 200
    /\ \A k \in 1..Len(items) :
         items[k].source = "dictionary" =>
           \E j \in 1..Len(response.items) :
             /\ response.items[j].name = items[k].name
             /\ response.items[j].total_price = items[k].total_price

\* C6: in the final record every item's source is one of dictionary, fuzzy,
\* llm, unknown, and it is the one the resolving stage gave the item.
C6_SourceIsResolutionStage ==
  Done =>
    \A k \in 1..Len(enhanced_items) :
      /\ enhanced_items[k].source \in {"dictionary", "fuzzy", "llm", "unknown"}
      /\ \E j \in 1..Len(receipt_data.items) :
           /\ receipt_data.items[j].original_line = enhanced_items[k].original_line
           /\ receipt_data.items[j].source = enhanced_items[k].source

\* C7: every candidate that neither the dictionary stage nor the semantic
\* parse claims is among the returned items, with confidence 0.3, category
\* "unknown" and source "unknown" (the appends to the log all succeeding).
C7_UnclaimedBecomeUnresolved ==
  (Done /\ response.success /\ ~append_failed) =>
    \A c \in 1..Len(candidate_lines) :
      LET line == candidate_lines[c].original_line
          unresolved_items == {k \in 1..Len(enhanced_items) :
                                 /\ enhanced_items[k].original_line = line
                                 /\ enhanced_items[k].confidence = 3000
                                 /\ enhanced_items[k].category = "unknown"
                                 /\ enhanced_items[k].source = "unknown"}
      IN Cardinality(unresolved_items) >= UnresolvedCount(line)

\* C8: one receipt adds exactly one log entry for each unresolved candidate
\* and none for a resolved one (the appends all succeeding).
C8_OneLogEntryPerUnresolved ==
  (Done /\ ~append_failed) =>
    \A c \in 1..Len(candidate_lines) :
      LET line == candidate_lines[c].original_line
          entries == {k \in 1..Len(unknown_log) : unknown_log[k].original_line = line}
      IN Cardinality(entries) = UnresolvedCount(line)

\* C9: a failed append to the log is swallowed: extract_receipt_info does
\* not return the record of its except branch, and the items resolved until
\* then are in what it returns.
C9_AppendFailureSwallowed ==
  append_failed =>
    /\ ~receipt_data.error
    /\ \A k \in 1..Len(items) :
         \E j \in 1..Len(receipt_data.items) : receipt_data.items[j] = items[k]

\* C10: no returned item has a total_price above 100, by main.py's two
\* passes and by parse_receipt_text.
C10_NoItemAboveCeiling ==
  response.success =>
    \A k \in 1..Len(response.items) : response.items[k].total_price <= MAX_ITEM_PRICE

\* C11: when no text can be extracted from the image the request is
\* reported as a failure, never as a success with an empty item list, by
\* main.py /ocr and by app.py /ocr.
C11_NoTextIsFailure ==
  (pc = "done" /\ text = <<>>) => (~response.success /\ response.status # 200)

\* C12: for every non-empty text and every collaborator response
\* process_receipt returns a success record: no exception of any stage
\* becomes a request failure.
C12_NonEmptyTextSucceeds ==
  (Done /\ text # <<>>) => (response.status = 200 /\ response.success)

\* C14: no item of a returned record has an empty name: a candidate with no
\* alphabetic token is named by its whole line, and the items of main.py's
\* response (dictionary, LLM, unknown) and of parse_receipt_text's all have
\* a name.
C14_NoEmptyName ==
  /\ \A k \in 1..Len(candidate_lines) : candidate_lines[k].name # ""
  /\ Returned => \A k \in 1..Len(enhanced_items) : enhanced_items[k].name # ""
  /\ response.success => \A k \in 1..Len(response.items) : response.items[k].name # ""

\* a successful response with an item in it, for a receipt with a candidate
\* named by its whole line and a semantic parse that gave an empty name
C14_Witness ==
  /\ Done
  /\ response.success
  /\ response.items # <<>>
  /\ \E k \in 1..Len(candidate_lines) :
       candidate_lines[k].name = candidate_lines[k].original_line
  /\ \E k \in 1..Len(receipt_data.items) :
       receipt_data.items[k].source = "llm" /\ receipt_data.items[k].name = ""

\* C15: every item parse_receipt_text returns has 0 <= carbon_emissions <=
\* 50 kg, the items sold by weight included.
C15_ParserEmissionsWithinBounds ==
  (endpoint = "parser" /\ pc = "done") =>
    \A k \in 1..Len(response.items) :
      /\ response.items[k].carbon_emissions >= 0
      /\ response.items[k].carbon_emissions <= MAX_EMISSIONS

\* C16: an item the semantic parse resolved keeps, in the final record, the
\* collaborator's estimated_carbon_emissions_kg (clamped at 50 kg), and no
\* further collaborator call is made for it.
C16_LLMEmissionsVerbatim ==
  Returned =>
    \A j \in 1..Len(receipt_data.items) :
      receipt_data.items[j].source = "llm" =>
        /\ \A call \in llm_calls :
             ~(call.fn = "estimate" /\ call.line = receipt_data.items[j].original_line)
        /\ \A k \in 1..Len(enhanced_items) :
             enhanced_items[k].original_line = receipt_data.items[j].original_line =>
               enhanced_items[k].carbon_emissions =
                 Clamp(receipt_data.items[j].carbon_emissions, 0, "").co2_emissions

C18_MissingFieldsAreNull ==
  (pc = "done" /\ response.success) =>
    /\ response.merchant \notin {Str(""), Str("Unknown Merchant")}
    /\ response.date # Str("")
    /\ (endpoint = "main" /\ main_merchant(text) = None) => response.merchant = None
    /\ (endpoint = "main" /\ main_date(text) = None) => response.date = None
    /\ (endpoint = "main" /\ main_total(text, None) = None) => response.total = None

\* C19: processing a receipt ends even when the collaborator never answers
\* (each call ends, by its timeout at the latest, and is not repeated): the
\* request is answered, and every candidate whose call failed is in the
\* record as an unresolved item of category "unknown".
C19_TerminatesDegraded ==
  (Done /\ text # <<>> /\ GROQ_API_KEY /\ ~llm_answered /\ ~append_failed) =>
    /\ response.success
    /\ \A c \in 1..Len(candidate_lines) :
         [fn |-> "parse", line |-> candidate_lines[c].original_line] \in llm_calls =>
           \E k \in 1..Len(enhanced_items) :
             /\ enhanced_items[k].original_line = candidate_lines[c].original_line
             /\ enhanced_items[k].category = "unknown"


\* C20: the food dictionary and its name set in main.py, and the food items
\* and keyword mappings of the emissions database, are what was loaded at
\* startup in every state: no resolution and no emissions computation
\* changes them.
C20_StaticDataUnchanged ==
  /\ FOOD_DICTIONARY = food_dictionary_csv
  /\ FOOD_NAME_SET = {lower(food_dictionary_csv[k].name) : k \in 1..Len(food_dictionary_csv)}
  /\ food_items = _load_food_database
  /\ category_mappings = _create_category_mappings(<<>>, _load_food_database, 1)

\* calculate_emissions has resolved a name that is not a keyword through the
\* mappings and computed its emissions
C20_Witness ==
  /\ endpoint = "emissions_db" /\ pc = "done"
  /\ db_result # <<>>
  /\ db_result[1].item_name = "Ground Beef"
  /\ db_result[1].category = "meat"
  /\ db_result[1].co2_emissions_kg > 0


Answered == pc = "done" /\ response.status = 200 /\ ~append_failed

\* C22: under SpecReceipts, every line of a parsed text that matches the
\* weighted-item pattern gives an item whose quantity is the weight, whose
\* unit price is the price per kg and whose total price is the trailing
\* total, and gives no fixed-price item of quantity 1 at that total.
C22_WeightedLineGivesWeightedItem ==
  (endpoint = "parser" /\ Answered) =>
    \A k \in 1..Len(text) :
      LET Weighted(m) ==
            m # <<>> =>
              /\ \E j \in 1..Len(response.items) :
                   /\ response.items[j].quantity = ParseFixed(Group(text[k], m, 1, 3), 3)
                   /\ response.items[j].unit_price = ParseFixed(Group(text[k], m, 11, 13), 2)
                   /\ response.items[j].total_price = ParseFixed(Group(text[k], m, 19, 21), 2)
              /\ ~\E j \in 1..Len(response.items) :
                   /\ response.items[j].quantity = 1000
                   /\ response.items[j].unit_price = response.items[j].total_price
                   /\ response.items[j].total_price = ParseFixed(Group(text[k], m, 19, 21), 2)
      IN Weighted(Search(weight_pattern, text[k]))

\* the last monetary amount (digits, a point, two digits) of a line, in
\* cents; -1 when the line has none
LastAmount(line) ==
  LET Last(found) == IF found = <<>> THEN -1 ELSE ParseFixed(found[Len(found)], 2)
  IN Last(FindAll(Re(<<Plus(Digit), One({"."}), Rep(Digit, 2, 2)>>, FALSE, FALSE), line))

\* the lines carrying the word "total" (SUBTOTAL is another word)
TotalLines(lines) ==
  {k \in 1..Len(lines) :
     /\ \E w \in 1..Len(split(lower(lines[k]))) : split(lower(lines[k]))[w] = "total"
     /\ LastAmount(lines[k]) >= 0}

\* C23: under SpecReceipts, the total of an answered request is the amount
\* of the bottommost line carrying a "total" marker; when no line carries
\* one it is the amount of the lowest line that has an amount.
C23_TotalIsBottommostMarkedAmount ==
  Answered =>
    LET amounts == {k \in 1..Len(text) : LastAmount(text[k]) >= 0}
        Bottom(S) == CHOOSE k \in S : \A j \in S : j <= k
    IN IF TotalLines(text) # {}
       THEN response.total = Num(LastAmount(text[Bottom(TotalLines(text))]))
       ELSE amounts # {} => response.total = Num(LastAmount(text[Bottom(amounts)]))

\* the number of the first store-number marker of a text, "" when there is none
StoreNumber(lines) ==
  LET Number(m, t) == IF m = <<>> THEN "" ELSE Group(t, m, Len(m) - 1, Len(m) - 1)
      In(t) == Number(Search(STORE_NUMBER, t), t)
  IN In(lower(Text(lines)))

\* C24: under SpecReceipts, the merchant of an answered request is the first
\* store-number marker when the text has one, whatever known merchant name
\* the text holds; else the first known merchant name; else the first
\* substantial non-numeric line.
C24_MerchantByPriority ==
  (Answered /\ text # <<>>) =>
    LET merchant == safe_str(response.merchant)
        known == {k \in 1..Len(text) : ContainsAny(lower(text[k]), merchant_keywords)}
        substantial == {k \in 1..Len(text) :
                          Len(strip(text[k])) > 3 /\ ~Matches(BARE_NUMBER, strip(text[k]))}
    IN IF StoreNumber(text) # ""
       THEN Contains(merchant, StoreNumber(text))
       ELSE IF known # {}
       THEN \E n \in 1..Len(merchant_keywords) :
              /\ Contains(lower(text[First(known)]), merchant_keywords[n])
              /\ Contains(lower(merchant), merchant_keywords[n])
       ELSE substantial # {} => merchant = strip(text[First(substantial)])

\* C29: under SpecReceipts, the name of every candidate is the first
\* alphabetic token of its line, and a text holding the line "BANANAS 1.99"
\* is answered with an item named banana, priced 1.99, from the dictionary.
C29_FirstAlphabeticTokenNames ==
  (endpoint = "main" /\ Answered) =>
    /\ \A c \in 1..Len(candidate_lines) :
         LET tokens == split(candidate_lines[c].original_line)
             alpha == {w \in 1..Len(tokens) : isalpha(tokens[w])}
         IN alpha # {} => candidate_lines[c].name = tokens[First(alpha)]
    /\ (\E k \in 1..Len(text) : text[k] = "BANANAS 1.99") =>
         \E j \in 1..Len(response.items) :
           /\ response.items[j].name = "banana"
           /\ response.items[j].total_price = 199
           /\ response.items[j].source = "dictionary"


\* the weight the priority gives a dictionary item of main.py: the weight
\* token of its line, else (the dictionary rows carry no typical weight)
\* max(0.1, price / 10), in thousandths of kg
PriorityWeight(item) ==
  LET Named(w) == IF w # <<>> THEN w[1]
                  ELSE IF item.total_price < 100 THEN 100 ELSE item.total_price
  IN Named(FromPattern(lower(item.original_line), 1))

\* C25: the emissions of every dictionary-resolved item, before the clamp,
\* are emission factor * estimated weight * quantity, the weight being the
\* weight token of the name, else the typical weight of the entry, else
\* max(0.1, price / 10): both for calculate_emissions of emissions_db.py and
\* for the dictionary items of calculate_carbon_emissions.
C25_EmissionsAreFactorWeightQuantity ==
  /\ (endpoint = "emissions_db" /\ pc = "done" /\ db_result[1].category # "unknown") =>
       /\ db_result[1].co2_emissions_kg =
            (db_result[1].co2_per_kg * db_result[1].estimated_weight_kg
             * db_result[1].quantity) \div 1000
       /\ db_result[1].estimated_weight_kg =
            estimate_weight_from_name(db_result[1].item_name, db_result[1].price)
  /\ Returned =>
       \A k \in 1..Len(enhanced_items) :
         enhanced_items[k].emissions_kg_per_kg.t = "num" =>
           computed[k].co2_emissions =
             (enhanced_items[k].emissions_kg_per_kg.v * PriorityWeight(enhanced_items[k])
              * enhanced_items[k].quantity) \div 1000

\* the entries of the database that list a name among their keywords
Owners(name) ==
  {k \in 1..Len(food_items) :
     \E j \in 1..Len(food_items[k].keywords) : lower(food_items[k].keywords[j]) = name}

\* C26: a call of calculate_emissions whose item name is, in whatever
\* letter case, a keyword of the database is resolved with confidence 0.9
\* and the category and emission factor of the first entry that lists the
\* keyword.
C26_ExactLookupFirstOwner ==
  (endpoint = "emissions_db" /\ pc = "done") =>
    LET name == strip(lower(db_result[1].item_name))
    IN Owners(name) # {} =>
         /\ db_result[1].confidence = 9000
         /\ db_result[1].category = food_items[First(Owners(name))].category
         /\ db_result[1].co2_per_kg = food_items[First(Owners(name))].co2_per_kg

\* C27: every item of the dictionary stage of main.py has the best similarity
\* score of its name as confidence, at least 0.8, and belongs to the first
\* row with that score; a candidate scoring below 0.8 gets no such item;
\* and a name that calculate_emissions resolves without its being a keyword
\* (a substring hit) does not get the confidence 0.9 of an exact hit.
C27_FuzzyFloorAndConfidence ==
  /\ (endpoint = "main" /\ pc \in {"llm", "fallback"}) =>
       /\ \A k \in 1..Len(items) :
            items[k].source = "dictionary" =>
              LET Best(best) ==
                    /\ best.score >= FUZZY_THRESHOLD
                    /\ items[k].confidence = best.score
                    /\ items[k].name = FOOD_DICTIONARY[best.idx].canonical
              IN Best(extractOne(items[k].original_name, rf_processor))
       /\ \A c \in 1..Len(candidate_lines) :
            LET Below(best) ==
                  best.score < FUZZY_THRESHOLD =>
                    candidate_lines[c].original_line \notin matched_candidates
            IN Below(extractOne(candidate_lines[c].name, rf_processor))
  /\ (endpoint = "emissions_db" /\ pc = "done") =>
       ((db_result[1].category # "unknown"
         /\ Owners(strip(lower(db_result[1].item_name))) = {})
        => db_result[1].confidence # 9000)

\* C28: under SpecFilter, when calculate_carbon_emissions has returned, no
\* returned item fails the food filter, the total is the sum over the
\* returned items alone,
\* and the items that pass the filter are all returned, except those whose
\* estimate the collaborator answered with a value that is no number.
C28_FilterExcludesExactlyNonFood ==
  Returned =>
    LET passing == {k \in 1..Len(receipt_data.items) :
                      is_likely_food_item(safe_str(Str(receipt_data.items[k].name)))}
    IN /\ \A k \in 1..Len(enhanced_items) : is_likely_food_item(enhanced_items[k].name)
       /\ total_emissions = SumOverItems(enhanced_items)
       /\ Len(enhanced_items) <= Cardinality(passing)
       /\ ~llm_answered => Len(enhanced_items) = Cardinality(passing)

\* a request has been answered whose extraction found an item that fails the
\* filter and one that passes it
C28_Witness ==
  /\ Done /\ response.success
  /\ Len(response.items) >= 1
  /\ Len(receipt_data.items) > Len(response.items)
  /\ ~llm_answered
  /\ \E k \in 1..Len(receipt_data.items) :
       ~is_likely_food_item(safe_str(Str(receipt_data.items[k].name)))



\* the response of the latest request of main.py that has ended with a
\* record, in a tuple; the empty tuple before any has
LatestSuccess ==
  IF pc = "done" /\ response.status = 200 THEN <<response>>
  ELSE IF run = 2 /\ first.response.status = 200 THEN <<first.response>>
  ELSE <<>>

\* C30: under SpecLast, the last-result store is empty until a request of
\* main.py has ended with a record and then holds the whole record of the
\* latest request that has (a failed request leaves it as it was), and
\* every GET /ocr/last answers with the failure while the store is empty
\* and with that one record afterwards.
C30_LastResultIsLatestSuccess ==
  /\ [](LAST_OCR_RESULT = LatestSuccess)
  /\ [][last_seen' # last_seen =>
          last_seen' = <<[success |-> LatestSuccess # <<>>, data |-> LatestSuccess]>>]_vars

\* a first request has succeeded, the second has failed, and a read of the
\* last result has returned the record of the first
C30_Witness ==
  /\ run = 2 /\ pc = "done" /\ response.status = 500
  /\ first.response.status = 200 /\ first.response.items # <<>>
  /\ LAST_OCR_RESULT = <<first.response>>
  /\ last_seen = <<[success |-> TRUE, data |-> <<first.response>>]>>



\* the lines of a file, each with its line end; what follows the last line
\* end, if anything, is the last element
RECURSIVE LogLines(_)
LogLines(s) ==
  IF s = "" THEN <<>>
  ELSE IF \A k \in 1..Len(s) : Ch(s, k) # "\n" THEN <<s>>
  ELSE LET k == CHOOSE n \in 1..Len(s) :
                  Ch(s, n) = "\n" /\ \A j \in 1..(n - 1) : Ch(s, j) # "\n"
       IN <<SubSeq(s, 1, k)>> \o LogLines(SubSeq(s, k + 1, Len(s)))

\* the entries the instances have appended so far
RECURSIVE Appended(_)
Appended(p) == IF p = 0 THEN <<>> ELSE Appended(p - 1) \o appenders[p].entries

\* C21: under SpecLog, whatever the interleaving of the instances, the
\* lines of the log file are the entries the instances have appended, each
\* as many times as it was appended and each a whole line
\* "<timestamp> | <name> | <original line>", and no step changes what the
\* file already holds: the file only grows at its end.
C21_AppendsKeepEntriesWhole ==
  /\ [](LET lines == LogLines(log_file)
            entries == Appended(NumInstances)
            Count(seq, e) == Cardinality({k \in 1..Len(seq) : seq[k] = e})
        IN /\ Len(lines) = Len(entries)
           /\ \A k \in 1..Len(entries) : Count(lines, entries[k]) = Count(entries, entries[k])
           /\ \A k \in 1..Len(lines) :
                \E a \in 1..Len(lines[k]), b \in 1..Len(lines[k]) :
                  /\ a + 2 < b
                  /\ SubSeq(lines[k], a, a + 2) = " | "
                  /\ SubSeq(lines[k], b, b + 2) = " | "
                  /\ Ch(lines[k], Len(lines[k])) = "\n")
  /\ [][SubSeq(log_file', 1, Len(log_file)) = log_file]_vars

\* the second instance opened the file while it was empty and holds its
\* entry in its buffer; meanwhile the first has appended another entry
C21_Witness ==
  /\ appenders[2].pc = "written" /\ appenders[2].pos = 0
  /\ Len(appenders[1].entries) = 1
  /\ log_file = appenders[1].entries[1]
  /\ appenders[2].buffer # log_file

=============================================================================
